---- MODULE Spec2Model ----
(***************************************************************************)
(* A model of the flydrive storage drivers (local filesystem, S3, GCS and  *)
(* Azure block blobs): one driver instance, the backend it wraps, and the  *)
(* result of the last driver call.                                         *)
(*                                                                         *)
(* Strings (locations, paths, keys) are sequences of one-character         *)
(* strings, so that path joining and normalisation are computed character  *)
(* by character; byte contents are sequences of numbers.                   *)
(***************************************************************************)
EXTENDS Integers, Sequences, FiniteSets, TLC

VARIABLES
    driver,   \* which driver class the instance is: "local", "s3", "gcs", "azure"
    store,    \* the backend: absolute path (local) or key (cloud) -> node
    last,     \* the last driver call: its arguments and what it returned or threw
    pending   \* what a call has handed back and is still at work: a stream, an iterator

vars == <<driver, store, last, pending>>

-----------------------------------------------------------------------------
(* Bounds *)

\* longest location string explored by the path-resolution specification
MaxLocLen == 7

\* deepest nesting below the root that copies and moves of directories may build
MaxDepth == 2

-----------------------------------------------------------------------------
(* Strings as sequences of characters *)

SLASH == "/"

RECURSIVE SeqsUpTo(_, _)
SeqsUpTo(S, n) ==
    IF n = 0 THEN {<<>>}
    ELSE LET shorter == SeqsUpTo(S, n - 1)
         IN shorter \cup {Append(s, c) : s \in {t \in shorter : Len(t) = n - 1}, c \in S}

StartsWith(s, p) == Len(p) <= Len(s) /\ SubSeq(s, 1, Len(p)) = p

\* str.split('/'): the segments between the separators, empty ones included
RECURSIVE SplitFrom(_, _, _)
SplitFrom(s, i, cur) ==
    IF i > Len(s) THEN <<cur>>
    ELSE IF s[i] = SLASH THEN <<cur>> \o SplitFrom(s, i + 1, <<>>)
    ELSE SplitFrom(s, i + 1, Append(cur, s[i]))

Split(s) == SplitFrom(s, 1, <<>>)

\* segments.join('/')
RECURSIVE JoinSegs(_)
JoinSegs(segs) ==
    IF Len(segs) = 0 THEN <<>>
    ELSE IF Len(segs) = 1 THEN segs[1]
    ELSE segs[1] \o <<SLASH>> \o JoinSegs(Tail(segs))

DOT == <<".">>
DOTDOT == <<".", ".">>

-----------------------------------------------------------------------------
(* Node's posix path module, as LocalStorage uses it *)

\* normalizeString: resolves '.' and '..' segments and drops empty ones; above
\* the root '..' is dropped unless allowAboveRoot
RECURSIVE normalizeString(_, _, _)
normalizeString(segs, allowAboveRoot, acc) ==
    IF Len(segs) = 0 THEN acc
    ELSE LET s == Head(segs)
             rest == Tail(segs)
         IN IF s = <<>> \/ s = DOT THEN normalizeString(rest, allowAboveRoot, acc)
            ELSE IF s = DOTDOT
                 THEN IF Len(acc) > 0 /\ acc[Len(acc)] # DOTDOT
                      THEN normalizeString(rest, allowAboveRoot, SubSeq(acc, 1, Len(acc) - 1))
                      ELSE IF allowAboveRoot
                           THEN normalizeString(rest, allowAboveRoot, Append(acc, DOTDOT))
                           ELSE normalizeString(rest, allowAboveRoot, acc)
            ELSE normalizeString(rest, allowAboveRoot, Append(acc, s))

\* path.normalize
normalize(path) ==
    IF Len(path) = 0 THEN DOT
    ELSE LET isAbsolute == path[1] = SLASH
             trailingSeparator == path[Len(path)] = SLASH
             body == JoinSegs(normalizeString(Split(path), ~isAbsolute, <<>>))
         IN IF Len(body) = 0
            THEN IF isAbsolute THEN <<SLASH>>
                 ELSE IF trailingSeparator THEN <<".", SLASH>> ELSE DOT
            ELSE (IF isAbsolute THEN <<SLASH>> ELSE <<>>) \o body
                 \o (IF trailingSeparator THEN <<SLASH>> ELSE <<>>)

\* path.join(a, b): the non-empty arguments joined by '/', then normalised
join(a, b) ==
    IF Len(a) = 0 /\ Len(b) = 0 THEN DOT
    ELSE IF Len(a) = 0 THEN normalize(b)
    ELSE IF Len(b) = 0 THEN normalize(a)
    ELSE normalize(a \o <<SLASH>> \o b)

\* path.dirname of an absolute, normalised path
dirname(path) ==
    LET n == IF Len(path) > 1 /\ path[Len(path)] = SLASH THEN Len(path) - 1 ELSE Len(path)
        cut == {i \in 1..n : path[i] = SLASH}
        k == IF cut = {} THEN 0 ELSE CHOOSE i \in cut : \A j \in cut : j <= i
    IN IF k = 0 THEN DOT
       ELSE IF k = 1 THEN <<SLASH>>
       ELSE SubSeq(path, 1, k - 1)

-----------------------------------------------------------------------------
(* LocalStorage: the root and the path a location resolves to *)

\* this.$root = resolve(config.root): an absolute, normalised directory
root == <<SLASH, "r">>

fullPathUnclamped(relativePath) == join(root, relativePath)

\* LocalStorage._fullPath
fullPath(relativePath) == join(root, join(<<SLASH>>, relativePath))

\* the locations the callers pass: two spellings of one file, a name that can
\* be a file or a directory, and a file below it
LocA == <<"a">>
LocUpA == <<".", ".", SLASH, "a">>
LocD == <<"d">>
LocDA == <<"d", SLASH, "a">>
Locs == {LocA, LocUpA, LocD, LocDA}

\* this._fullPath(location) at the call sites: fullPath, worked out once for
\* the locations above
fullPathOfLocs == [l \in Locs |-> fullPath(l)]
thisFullPath(location) ==
    IF location \in Locs THEN fullPathOfLocs[location] ELSE fullPath(location)

-----------------------------------------------------------------------------
(* Inputs *)

\* UTF-8 encoding of one code point, as Buffer.from(string) does; a lone
\* surrogate is written as U+FFFD
Utf8Char(cp) ==
    IF cp < 128 THEN <<cp>>
    ELSE IF cp < 2048 THEN <<192 + (cp \div 64), 128 + (cp % 64)>>
    ELSE IF cp \in 55296..57343 THEN <<239, 191, 189>>
    ELSE IF cp < 65536 THEN <<224 + (cp \div 4096), 128 + ((cp \div 64) % 64), 128 + (cp % 64)>>
    ELSE <<240 + (cp \div 262144), 128 + ((cp \div 4096) % 64),
           128 + ((cp \div 64) % 64), 128 + (cp % 64)>>

RECURSIVE Utf8(_)
Utf8(chars) == IF Len(chars) = 0 THEN <<>> ELSE Utf8Char(Head(chars)) \o Utf8(Tail(chars))

RECURSIVE Concat(_)
Concat(chunks) == IF Len(chunks) = 0 THEN <<>> ELSE Head(chunks) \o Concat(Tail(chunks))

\* what a caller can pass as content: a Buffer, a string (code points), a
\* Readable (the chunks it emits, and whether it then errors instead of
\* ending), or anything else (a number, an object)
Content(type, bytes, chars, chunks, fails) ==
    [type |-> type, bytes |-> bytes, chars |-> chars, chunks |-> chunks, fails |-> fails]

BufferContent == Content("buffer", <<7>>, <<>>, <<>>, FALSE)
StringContent == Content("string", <<>>, <<233>>, <<>>, FALSE)
StreamContent == Content("stream", <<>>, <<>>, <<<<195>>, <<169>>>>, FALSE)
BrokenStream == Content("stream", <<>>, <<>>, <<<<195>>>>, TRUE)
OtherContent == Content("other", <<>>, <<>>, <<>>, FALSE)
Contents == {BufferContent, StringContent, StreamContent, BrokenStream, OtherContent}

\* utils.isReadableStream
isReadableStream(content) == content.type = "stream"

\* Buffer.isBuffer(content) || typeof content === 'string'
isBufferOrString(content) == content.type \in {"buffer", "string"}

\* the bytes a content stands for
BytesOf(content) ==
    IF content.type = "buffer" THEN content.bytes
    ELSE IF content.type = "string" THEN Utf8(content.chars)
    ELSE Concat(content.chunks)

-----------------------------------------------------------------------------
(* Errors *)

\* a native error: fs err.code / S3 err.name / GCS err.code / Azure error-code
\* header, the HTTP status (0: none), and fs err.path or the Azure request URL
NativeError(code, status, path) == [code |-> code, status |-> status, path |-> path]

NoError == NativeError("", 0, <<>>)

\* an exception of ../Exceptions: its class, the path it carries, and the code
\* of the native error it wraps
Thrown(kind, epath, cause) == [kind |-> kind, epath |-> epath, cause |-> cause]

\* LocalStorage.ts handleError
LocalHandleError(err, fullPathArg) ==
    LET p == IF err.path # <<>> THEN err.path ELSE fullPathArg
    IN IF err.code \in {"E_FILE_NOT_FOUND", "ENOENT"} THEN Thrown("FileNotFound", p, err.code)
       ELSE IF err.code = "EPERM" THEN Thrown("PermissionMissing", p, err.code)
       ELSE Thrown("UnknownException", p, err.code)

\* the bucket / container the cloud drivers are bound to
bucket == <<"B">>

\* AmazonWebServicesS3Storage handleError: decides on err.name
S3HandleError(err, path, bucketName) ==
    IF err.code = "NoSuchBucket" THEN Thrown("NoSuchBucket", bucketName, err.code)
    ELSE IF err.code = "NoSuchKey" THEN Thrown("FileNotFound", path, err.code)
    ELSE IF err.code = "AllAccessDisabled" THEN Thrown("PermissionMissing", path, err.code)
    ELSE Thrown("UnknownException", path, err.code)

\* GoogleCloudStorage.ts handleError: decides on err.code, a number (written
\* here as its digits) or the string 'ENOENT'
GcsHandleError(err, path) ==
    IF err.code = "401" THEN Thrown("AuthorizationRequired", path, err.code)
    ELSE IF err.code = "403" THEN Thrown("PermissionMissing", path, err.code)
    ELSE IF err.code = "404" THEN Thrown("FileNotFound", path, err.code)
    ELSE IF err.code = "ENOENT" THEN Thrown("WrongKeyPath", path, err.code)
    ELSE Thrown("UnknownException", path, err.code)

\* a status code as it prints
StatusText(status) ==
    CASE status = 403 -> "403" [] status = 404 -> "404" [] status = 500 -> "500" [] OTHER -> "undefined"

\* AzureBlockBlobStorage.convertError: the error-code header, else the status
\* code; the path is the URL of the failed request
AzureConvertError(err) ==
    LET errorCode == IF err.code # "" THEN err.code ELSE StatusText(err.status)
        url == err.path
    IN IF errorCode = "BlobNotFound" THEN Thrown("FileNotFound", url, errorCode)
       ELSE IF errorCode = "AuthenticationFailed" THEN Thrown("AuthorizationRequired", url, errorCode)
       ELSE Thrown("UnknownException", url, errorCode)

\* new InvalidInput('content', '<Driver>#put', ...): raised by the driver itself
InvalidInput == Thrown("InvalidInput", <<>>, "")

-----------------------------------------------------------------------------
(* The backend: nodes by absolute path (local) or by key (cloud) *)

FileNode(data) == [dir |-> FALSE, data |-> data]
DirNode == [dir |-> TRUE, data |-> <<>>]

Has(fs, p) == p \in DOMAIN fs
IsFile(fs, p) == Has(fs, p) /\ ~fs[p].dir
IsDir(fs, p) == Has(fs, p) /\ fs[p].dir

SetNode(fs, p, node) == [k \in DOMAIN fs \cup {p} |-> IF k = p THEN node ELSE fs[k]]
Remove(fs, ps) == [k \in DOMAIN fs \ ps |-> fs[k]]

\* p and the directories above it, up to but without '/'
RECURSIVE PathChain(_)
PathChain(p) == IF p = <<SLASH>> \/ p = DOT \/ p = <<>> THEN {} ELSE {p} \cup PathChain(dirname(p))

Above(p) == PathChain(p) \ {p}

\* p is q or lies below the directory q
Under(p, q) == q \in PathChain(p)

\* the paths of the tree rooted at p
Subtree(fs, p) == {k \in DOMAIN fs : Under(k, p)}

\* p re-rooted from the tree at src to the tree at dest
Rebase(p, src, dest) == dest \o SubSeq(p, Len(src) + 1, Len(p))

\* a path component that is a regular file: the kernel answers ENOTDIR
BlockedByFile(fs, p) == \E a \in Above(p) : IsFile(fs, a)

-----------------------------------------------------------------------------
(* What a driver call gives back *)

NoThrow == Thrown("", <<>>, "")

\* the backend after the call, whether the call returned, what it threw, the
\* exists / wasDeleted field of the response ("true", "false", "null" or ""),
\* and the content of the response
Ret(fs, ok, thrown, flag, content) ==
    [store |-> fs, ok |-> ok, thrown |-> thrown, flag |-> flag, content |-> content]

Ok(fs) == Ret(fs, TRUE, NoThrow, "", <<>>)
Fail(fs, thrown) == Ret(fs, FALSE, thrown, "", <<>>)
BoolText(b) == IF b THEN "true" ELSE "false"

-----------------------------------------------------------------------------
(* The filesystem calls LocalStorage makes (fs, fs-extra on Linux).  Each    *)
(* takes the error the environment injects into it ("" for none) and gives  *)
(* the filesystem after the call and the error it raised.  A filesystem     *)
(* error carries the path of the failed call in err.path.                   *)

FsRet(fs, code, path, data) == [fs |-> fs, err |-> NativeError(code, 0, path), data |-> data]

\* an Error fs-extra raises itself: no code, no path
NoCode == "undefined"

\* a path with a trailing '/' names the directory entry before it
HasTrailingSlash(p) == Len(p) > 1 /\ p[Len(p)] = SLASH
Strip(p) == IF HasTrailingSlash(p) THEN SubSeq(p, 1, Len(p) - 1) ELSE p

\* the error of looking a path up: injected, a file in the way, or nothing there
LookupError(fs, p, fault) ==
    IF fault # "" THEN fault
    ELSE IF BlockedByFile(fs, Strip(p)) THEN "ENOTDIR"
    ELSE IF ~Has(fs, Strip(p)) THEN "ENOENT"
    ELSE IF HasTrailingSlash(p) /\ IsFile(fs, Strip(p)) THEN "ENOTDIR"
    ELSE ""

\* fse.readFile(p)
readFile(fs, p, fault) ==
    LET e == LookupError(fs, p, fault)
    IN IF e # "" THEN FsRet(fs, e, p, <<>>)
       ELSE IF IsDir(fs, Strip(p)) THEN FsRet(fs, "EISDIR", p, <<>>)
       ELSE FsRet(fs, "", <<>>, fs[p].data)

\* fse.pathExists(p): fs.access, every error answered false
pathExists(fs, p, fault) == LookupError(fs, p, fault) = ""

\* fse.unlink(p)
unlink(fs, p, fault) ==
    LET e == LookupError(fs, p, fault)
    IN IF e # "" THEN FsRet(fs, e, p, <<>>)
       ELSE IF IsDir(fs, Strip(p)) THEN FsRet(fs, "EISDIR", p, <<>>)
       ELSE FsRet(Remove(fs, {p}), "", <<>>, <<>>)

\* the filesystem with directory d and the missing directories above it made
WithDirs(fs, d) ==
    [k \in DOMAIN fs \cup PathChain(d) |-> IF k \in DOMAIN fs THEN fs[k] ELSE DirNode]

\* fse.ensureDir(d)
ensureDir(fs, d, fault) ==
    IF fault # "" THEN FsRet(fs, fault, d, <<>>)
    ELSE IF IsFile(fs, d) THEN FsRet(fs, "EEXIST", d, <<>>)
    ELSE IF BlockedByFile(fs, d) THEN FsRet(fs, "ENOTDIR", d, <<>>)
    ELSE FsRet(WithDirs(fs, d), "", <<>>, <<>>)

\* fse.writeFile(p, data): open for writing (create or truncate), write, close
writeFile(fs, p, data, fault) ==
    IF fault # "" THEN FsRet(fs, fault, p, <<>>)
    ELSE IF HasTrailingSlash(p) \/ IsDir(fs, p) THEN FsRet(fs, "EISDIR", p, <<>>)
    ELSE IF BlockedByFile(fs, p) THEN FsRet(fs, "ENOTDIR", p, <<>>)
    ELSE IF ~IsDir(fs, dirname(p)) THEN FsRet(fs, "ENOENT", p, <<>>)
    ELSE FsRet(SetNode(fs, p, FileNode(data)), "", <<>>, <<>>)

\* the error a failing source stream emits: not a filesystem error
SourceError == NativeError("ESOURCE", 0, <<>>)

\* fse.createWriteStream(p) and pipeline(content, ws): the sink opens the file
\* (create or truncate) and writes each chunk as it arrives; when the source
\* errors the sink is destroyed, and what was written stays in the file
pipelineToFile(fs, p, content, fault) ==
    LET opened == writeFile(fs, p, <<>>, fault)
    IN IF opened.err.code # "" THEN opened
       ELSE LET after == SetNode(fs, p, FileNode(Concat(content.chunks)))
            IN IF content.fails THEN [fs |-> after, err |-> SourceError, data |-> <<>>]
               ELSE FsRet(after, "", <<>>, <<>>)

\* the tree at src laid over the tree at dest (files overwritten)
CopyTree(fs, src, dest) ==
    LET made == WithDirs(fs, dirname(dest))
        new == {Rebase(k, src, dest) : k \in Subtree(fs, src)}
    IN [k \in DOMAIN made \cup new |->
           IF k \in new
           THEN fs[CHOOSE j \in Subtree(fs, src) : Rebase(j, src, dest) = k]
           ELSE made[k]]

\* a file of one tree would land on a directory of the other, or the reverse
TreesClash(fs, src, dest) ==
    \E k \in Subtree(fs, src) :
        LET t == Rebase(k, src, dest)
        IN Has(fs, t) /\ fs[t].dir # fs[k].dir

\* fse.copy(src, dest), overwrite: true
fseCopy(fs, src, dest, fault) ==
    LET e == LookupError(fs, src, fault)
    IN IF e # "" THEN FsRet(fs, e, src, <<>>)
       ELSE IF src = dest THEN FsRet(fs, NoCode, <<>>, <<>>)
       ELSE IF IsDir(fs, src) /\ Under(dest, src) THEN FsRet(fs, NoCode, <<>>, <<>>)
       ELSE IF TreesClash(fs, src, dest) THEN FsRet(fs, NoCode, <<>>, <<>>)
       ELSE IF BlockedByFile(fs, dest) THEN FsRet(fs, "ENOTDIR", dirname(dest), <<>>)
       ELSE FsRet(CopyTree(fs, src, dest), "", <<>>, <<>>)

\* fse.move(src, dest), overwrite: false.  A move onto itself is a check that
\* src is accessible in fs-extra up to 8 and an error from 9 on: sameIsNoop
\* is the installed version's answer.
fseMove(fs, src, dest, fault, sameIsNoop) ==
    LET e == LookupError(fs, src, fault)
    IN IF e # "" THEN FsRet(fs, e, src, <<>>)
       ELSE IF src = dest
            THEN IF sameIsNoop THEN FsRet(fs, "", <<>>, <<>>) ELSE FsRet(fs, NoCode, <<>>, <<>>)
       ELSE IF IsDir(fs, src) /\ Under(dest, src) THEN FsRet(fs, NoCode, <<>>, <<>>)
       ELSE IF BlockedByFile(fs, dest) THEN FsRet(fs, "ENOTDIR", dirname(dest), <<>>)
       ELSE IF Has(fs, dest) THEN FsRet(fs, NoCode, <<>>, <<>>)
       ELSE FsRet(Remove(CopyTree(fs, src, dest), Subtree(fs, src)), "", <<>>, <<>>)

-----------------------------------------------------------------------------
(* LocalStorage *)

\* LocalStorage.exists
LocalExists(fs, location, fault) ==
    Ret(fs, TRUE, NoThrow, BoolText(pathExists(fs, thisFullPath(location), fault)), <<>>)

\* LocalStorage.getBuffer
LocalGetBuffer(fs, location, fault) ==
    LET r == readFile(fs, thisFullPath(location), fault)
    IN IF r.err.code = "" THEN Ret(fs, TRUE, NoThrow, "", r.data)
       ELSE Fail(fs, LocalHandleError(r.err, location))

\* a faulty delete: the location is joined to the root without the clamping
LocalDeleteUnclamped(fs, location, fault) ==
    LET r == unlink(fs, fullPathUnclamped(location), fault)
        e == LocalHandleError(r.err, location)
    IN IF r.err.code = "" THEN Ret(r.fs, TRUE, NoThrow, "true", <<>>)
       ELSE IF e.kind = "FileNotFound" THEN Ret(r.fs, TRUE, NoThrow, "false", <<>>)
       ELSE Fail(r.fs, e)

\* LocalStorage.delete
LocalDelete(fs, location, fault) ==
    LET r == unlink(fs, thisFullPath(location), fault)
        e == LocalHandleError(r.err, location)
    IN IF r.err.code = "" THEN Ret(r.fs, TRUE, NoThrow, "true", <<>>)
       ELSE IF e.kind = "FileNotFound" THEN Ret(r.fs, TRUE, NoThrow, "false", <<>>)
       ELSE Fail(r.fs, e)

\* LocalStorage.copy
LocalCopy(fs, src, dest, fault) ==
    LET srcPath == thisFullPath(src)
        r == fseCopy(fs, srcPath, thisFullPath(dest), fault)
    IN IF r.err.code = "" THEN Ok(r.fs) ELSE Fail(r.fs, LocalHandleError(r.err, srcPath))

\* LocalStorage.move
LocalMove(fs, src, dest, fault, sameIsNoop) ==
    LET r == fseMove(fs, thisFullPath(src), thisFullPath(dest), fault, sameIsNoop)
    IN IF r.err.code = "" THEN Ok(r.fs) ELSE Fail(r.fs, LocalHandleError(r.err, src))

\* LocalStorage.put
LocalPut(fs, location, content, faultDir, faultWrite) ==
    LET fullP == thisFullPath(location)
        made == ensureDir(fs, dirname(fullP), faultDir)
        wrote == IF isReadableStream(content)
                 THEN pipelineToFile(made.fs, fullP, content, faultWrite)
                 ELSE writeFile(made.fs, fullP, BytesOf(content), faultWrite)
    IN IF isReadableStream(content) \/ isBufferOrString(content)
       THEN IF made.err.code # "" THEN Fail(made.fs, LocalHandleError(made.err, location))
            ELSE IF wrote.err.code # "" THEN Fail(wrote.fs, LocalHandleError(wrote.err, location))
            ELSE Ok(wrote.fs)
       ELSE Fail(fs, InvalidInput)

-----------------------------------------------------------------------------
(* The object stores: a flat map from key to object.  Each SDK call takes   *)
(* the error the environment injects into it (NoError for none) and gives   *)
(* the store after the call, the error it raised and the data it read.      *)

SdkRet(fs, err, data) == [fs |-> fs, err |-> err, data |-> data]

\* the read of an object: what the SDK raises when the key is absent is notFound
sdkRead(fs, key, fault, notFound) ==
    IF fault # NoError THEN SdkRet(fs, fault, <<>>)
    ELSE IF ~Has(fs, key) THEN SdkRet(fs, notFound, <<>>)
    ELSE SdkRet(fs, NoError, fs[key].data)

\* the upload of a body: the object appears when the upload completes, and an
\* upload whose source stream errors is abandoned
sdkUpload(fs, key, content, fault) ==
    IF fault # NoError THEN SdkRet(fs, fault, <<>>)
    ELSE IF content.fails THEN SdkRet(fs, SourceError, <<>>)
    ELSE SdkRet(SetNode(fs, key, FileNode(BytesOf(content))), NoError, <<>>)

\* a server-side copy
sdkCopy(fs, src, dest, fault, notFound) ==
    IF fault # NoError THEN SdkRet(fs, fault, <<>>)
    ELSE IF ~Has(fs, src) THEN SdkRet(fs, notFound, <<>>)
    ELSE SdkRet(SetNode(fs, dest, fs[src]), NoError, <<>>)

\* a delete that reports a missing key with notFound
sdkDelete(fs, key, fault, notFound) ==
    IF fault # NoError THEN SdkRet(fs, fault, <<>>)
    ELSE IF ~Has(fs, key) THEN SdkRet(fs, notFound, <<>>)
    ELSE SdkRet(Remove(fs, {key}), NoError, <<>>)

-----------------------------------------------------------------------------
(* AmazonWebServicesS3Storage *)

S3NoSuchKey == NativeError("NoSuchKey", 404, <<>>)
\* a HEAD request has no body to name the error: the SDK calls it NotFound
S3HeadNotFound == NativeError("NotFound", 404, <<>>)
\* S3 refuses to copy an object onto itself with nothing changed
S3CopyOntoItself == NativeError("InvalidRequest", 400, <<>>)
\* ManagedUpload given a body that is no string, Buffer or stream
S3BadBody == NativeError("TypeError", 0, <<>>)

\* a faulty exists: the 404 of headObject is translated and thrown like any error
S3ExistsThrows404(fs, location, fault) ==
    LET r == sdkRead(fs, location, fault, S3HeadNotFound)
    IN IF r.err = NoError THEN Ret(fs, TRUE, NoThrow, "true", <<>>)
       ELSE Fail(fs, S3HandleError(r.err, location, bucket))

\* AmazonWebServicesS3Storage.exists
S3Exists(fs, location, fault) ==
    LET r == sdkRead(fs, location, fault, S3HeadNotFound)
    IN IF r.err = NoError THEN Ret(fs, TRUE, NoThrow, "true", <<>>)
       ELSE IF r.err.status = 404 THEN Ret(fs, TRUE, NoThrow, "false", <<>>)
       ELSE Fail(fs, S3HandleError(r.err, location, bucket))

\* AmazonWebServicesS3Storage.getBuffer
S3GetBuffer(fs, location, fault) ==
    LET r == sdkRead(fs, location, fault, S3NoSuchKey)
    IN IF r.err = NoError THEN Ret(fs, TRUE, NoThrow, "", r.data)
       ELSE Fail(fs, S3HandleError(r.err, location, bucket))

\* a faulty delete: it reports whether the key was there
S3DeleteReportsPresence(fs, location, fault) ==
    IF fault # NoError THEN Fail(fs, S3HandleError(fault, location, bucket))
    ELSE Ret(Remove(fs, {location}), TRUE, NoThrow,
             IF Has(fs, location) THEN "true" ELSE "false", <<>>)

\* AmazonWebServicesS3Storage.delete: deleteObject succeeds on a missing key
S3Delete(fs, location, fault) ==
    IF fault # NoError THEN Fail(fs, S3HandleError(fault, location, bucket))
    ELSE Ret(Remove(fs, {location}), TRUE, NoThrow, "null", <<>>)

\* a faulty copy: source and destination are taken the wrong way round
S3CopySwapped(fs, src, dest, fault) ==
    LET r == IF fault = NoError /\ Has(fs, src) /\ src = dest
             THEN SdkRet(fs, S3CopyOntoItself, <<>>)
             ELSE sdkCopy(fs, dest, src, fault, S3NoSuchKey)
    IN IF r.err = NoError THEN Ok(r.fs) ELSE Fail(r.fs, S3HandleError(r.err, src, bucket))

\* AmazonWebServicesS3Storage.copy
S3Copy(fs, src, dest, fault) ==
    LET r == IF fault = NoError /\ Has(fs, src) /\ src = dest
             THEN SdkRet(fs, S3CopyOntoItself, <<>>)
             ELSE sdkCopy(fs, src, dest, fault, S3NoSuchKey)
    IN IF r.err = NoError THEN Ok(r.fs) ELSE Fail(r.fs, S3HandleError(r.err, src, bucket))

\* a faulty move: the source is not deleted after the copy
S3MoveKeepsSource(fs, src, dest, faultCopy, faultDelete) ==
    S3Copy(fs, src, dest, faultCopy)

\* AmazonWebServicesS3Storage.move
S3Move(fs, src, dest, faultCopy, faultDelete) ==
    LET copied == S3Copy(fs, src, dest, faultCopy)
        deleted == S3Delete(copied.store, src, faultDelete)
    IN IF ~copied.ok THEN copied
       ELSE IF ~deleted.ok THEN deleted
       ELSE Ok(deleted.store)

\* AmazonWebServicesS3Storage.put
S3Put(fs, location, content, fault) ==
    LET r == IF fault = NoError /\ content.type = "other"
             THEN SdkRet(fs, S3BadBody, <<>>)
             ELSE sdkUpload(fs, location, content, fault)
    IN IF r.err = NoError THEN Ok(r.fs) ELSE Fail(r.fs, S3HandleError(r.err, location, bucket))

-----------------------------------------------------------------------------
(* GoogleCloudStorage *)

GcsNotFound == NativeError("404", 404, <<>>)

\* GoogleCloudStorage.exists: File.exists answers [false] for a 404
GcsExists(fs, location, fault) ==
    IF fault # NoError THEN Fail(fs, GcsHandleError(fault, location))
    ELSE Ret(fs, TRUE, NoThrow, BoolText(Has(fs, location)), <<>>)

\* GoogleCloudStorage.getBuffer
GcsGetBuffer(fs, location, fault) ==
    LET r == sdkRead(fs, location, fault, GcsNotFound)
    IN IF r.err = NoError THEN Ret(fs, TRUE, NoThrow, "", r.data)
       ELSE Fail(fs, GcsHandleError(r.err, location))

\* a faulty delete: the not-found of the service is thrown, not downgraded
GcsDeleteThrowsNotFound(fs, location, fault) ==
    LET r == sdkDelete(fs, location, fault, GcsNotFound)
    IN IF r.err = NoError THEN Ret(r.fs, TRUE, NoThrow, "true", <<>>)
       ELSE Fail(r.fs, GcsHandleError(r.err, location))

\* GoogleCloudStorage.delete
GcsDelete(fs, location, fault) ==
    LET r == sdkDelete(fs, location, fault, GcsNotFound)
        e == GcsHandleError(r.err, location)
    IN IF r.err = NoError THEN Ret(r.fs, TRUE, NoThrow, "true", <<>>)
       ELSE IF e.kind = "FileNotFound" THEN Ret(r.fs, TRUE, NoThrow, "false", <<>>)
       ELSE Fail(r.fs, e)

\* GoogleCloudStorage.copy
GcsCopy(fs, src, dest, fault) ==
    LET r == sdkCopy(fs, src, dest, fault, GcsNotFound)
    IN IF r.err = NoError THEN Ok(r.fs) ELSE Fail(r.fs, GcsHandleError(r.err, src))

\* GoogleCloudStorage.move: File.move copies, then deletes the source; the
\* SDK versions that compare the names first skip the delete of a move onto
\* itself (sameIsNoop)
GcsMove(fs, src, dest, faultCopy, faultDelete, sameIsNoop) ==
    LET copied == sdkCopy(fs, src, dest, faultCopy, GcsNotFound)
        deleted == IF src = dest /\ sameIsNoop THEN copied
                   ELSE sdkDelete(copied.fs, src, faultDelete, GcsNotFound)
    IN IF copied.err # NoError THEN Fail(copied.fs, GcsHandleError(copied.err, src))
       ELSE IF deleted.err # NoError THEN Fail(deleted.fs, GcsHandleError(deleted.err, src))
       ELSE Ok(deleted.fs)

\* GoogleCloudStorage.put
GcsPut(fs, location, content, fault) ==
    LET r == sdkUpload(fs, location, content, fault)
    IN IF isReadableStream(content) \/ isBufferOrString(content)
       THEN IF r.err = NoError THEN Ok(r.fs) ELSE Fail(r.fs, GcsHandleError(r.err, location))
       ELSE Fail(fs, InvalidInput)

-----------------------------------------------------------------------------
(* AzureBlockBlobStorage *)

\* BlockBlobClient.url: the container URL, '/', the blob name
containerUrl == <<"https://account.blob.core.windows.net/container">>
blobUrl(location) == containerUrl \o <<SLASH>> \o location

\* a RestError carries the request it answers
AtUrl(err, location) == IF err = NoError THEN err ELSE [err EXCEPT !.path = blobUrl(location)]

AzureBlobNotFound == NativeError("BlobNotFound", 404, <<>>)

\* an exception of ../Exceptions seen as a RestError: no response, no
\* statusCode, no request
ThrownAsRestError == NativeError("", 0, <<>>)

\* a faulty length: the characters of a string counted as if each were one byte
charLength(content) ==
    IF content.type = "string" THEN Len(content.chars) ELSE Len(BytesOf(content))

\* Buffer.byteLength(content)
byteLength(content) == Len(BytesOf(content))

\* BlockBlobClient.upload(body, contentLength): contentLength bytes of the body
azureUpload(fs, key, content, contentLength, fault) ==
    IF fault # NoError THEN SdkRet(fs, fault, <<>>)
    ELSE SdkRet(SetNode(fs, key, FileNode(SubSeq(BytesOf(content), 1, contentLength))),
                NoError, <<>>)

\* AzureBlockBlobStorage.exists: BlockBlobClient.exists answers false for a 404
AzureExists(fs, location, fault) ==
    IF fault # NoError THEN Fail(fs, AzureConvertError(AtUrl(fault, location)))
    ELSE Ret(fs, TRUE, NoThrow, BoolText(Has(fs, location)), <<>>)

\* AzureBlockBlobStorage.getBuffer
AzureGetBuffer(fs, location, fault) ==
    LET r == sdkRead(fs, location, fault, AzureBlobNotFound)
    IN IF r.err = NoError THEN Ret(fs, TRUE, NoThrow, "", r.data)
       ELSE Fail(fs, AzureConvertError(AtUrl(r.err, location)))

\* AzureBlockBlobStorage.delete
AzureDelete(fs, location, fault) ==
    LET r == sdkDelete(fs, location, fault, AzureBlobNotFound)
        e == AzureConvertError(AtUrl(r.err, location))
    IN IF r.err = NoError THEN Ret(r.fs, TRUE, NoThrow, "true", <<>>)
       ELSE IF e.kind = "FileNotFound" THEN Ret(r.fs, TRUE, NoThrow, "false", <<>>)
       ELSE Fail(r.fs, e)

\* AzureBlockBlobStorage.copy: syncCopyFromURL on the destination blob, from a
\* signed URL of the source; absentCode is the service's error code for a
\* source that is not there
AzureCopy(fs, src, dest, fault, absentCode) ==
    LET r == sdkCopy(fs, src, dest, fault, NativeError(absentCode, 404, <<>>))
    IN IF r.err = NoError THEN Ok(r.fs) ELSE Fail(r.fs, AzureConvertError(AtUrl(r.err, dest)))

\* a faulty move: a failed delete undoes the copy
AzureMoveRollsBack(fs, src, dest, faultCopy, faultDelete, absentCode) ==
    LET copied == AzureCopy(fs, src, dest, faultCopy, absentCode)
        deleted == sdkDelete(copied.store, src, faultDelete, AzureBlobNotFound)
    IN IF ~copied.ok THEN Fail(copied.store, AzureConvertError(ThrownAsRestError))
       ELSE IF deleted.err # NoError
            THEN Fail(fs, AzureConvertError(AtUrl(deleted.err, src)))
       ELSE Ok(deleted.fs)

\* AzureBlockBlobStorage.move: whatever the try block throws, the exception of
\* copy included, goes through convertError
AzureMove(fs, src, dest, faultCopy, faultDelete, absentCode) ==
    LET copied == AzureCopy(fs, src, dest, faultCopy, absentCode)
        deleted == sdkDelete(copied.store, src, faultDelete, AzureBlobNotFound)
    IN IF ~copied.ok THEN Fail(copied.store, AzureConvertError(ThrownAsRestError))
       ELSE IF deleted.err # NoError
            THEN Fail(deleted.fs, AzureConvertError(AtUrl(deleted.err, src)))
       ELSE Ok(deleted.fs)

\* AzureBlockBlobStorage.put
AzurePut(fs, location, content, fault) ==
    LET r == IF isBufferOrString(content)
             THEN azureUpload(fs, location, content, byteLength(content), fault)
             ELSE sdkUpload(fs, location, content, fault)
    IN IF isBufferOrString(content) \/ isReadableStream(content)
       THEN IF r.err = NoError THEN Ok(r.fs)
            ELSE Fail(r.fs, AzureConvertError(AtUrl(r.err, location)))
       ELSE Fail(fs, InvalidInput)

-----------------------------------------------------------------------------
(* The state machine: one driver instance and its callers *)

Drivers == {"local", "s3", "gcs", "azure"}

\* the errors the environment can inject into a backend call
Faults(d) ==
    IF d = "local" THEN {NoError, NativeError("EPERM", 0, <<>>)}
    ELSE IF d = "s3" THEN {NoError, NativeError("AllAccessDisabled", 403, <<>>)}
    ELSE IF d = "gcs" THEN {NoError, NativeError("403", 403, <<>>)}
    ELSE {NoError, NativeError("AuthenticationFailed", 403, <<>>)}

\* Azure's error code for a copy source that is not there
AzureAbsentCodes == {"BlobNotFound", "CannotVerifyCopySource"}

\* the backend of a fresh instance: the root directory, or an empty bucket
EmptyStore(d) == [k \in (IF d = "local" THEN {root} ELSE {}) |-> DirNode]

\* the key a location addresses in the backend
Key(d, location) == IF d = "local" THEN thisFullPath(location) ELSE location

\* the record of a driver call: the operation, its arguments (the locations,
\* the kind of content and the bytes it stands for), the errors injected into
\* its backend calls, and what it gave back
Call(op, loc, dest, ctype, given, faults, r) ==
    [op |-> op, loc |-> loc, dest |-> dest, ctype |-> ctype, given |-> given,
     faults |-> faults,
     ok |-> r.ok, kind |-> r.thrown.kind, epath |-> r.thrown.epath,
     cause |-> r.thrown.cause, flag |-> r.flag, content |-> r.content]

NoCall == Call("init", <<>>, <<>>, "", <<>>, <<>>, Ok(<<>>))

\* nothing handed back is still at work
NoPending == [kind |-> "none"]

Init ==
    /\ driver \in Drivers
    /\ store = EmptyStore(driver)
    /\ last = NoCall
    /\ pending = NoPending

DoExists(d, fs, location, f) ==
    IF d = "local" THEN LocalExists(fs, location, f.code)
    ELSE IF d = "s3" THEN S3Exists(fs, location, f)
    ELSE IF d = "gcs" THEN GcsExists(fs, location, f)
    ELSE AzureExists(fs, location, f)

DoGetBuffer(d, fs, location, f) ==
    IF d = "local" THEN LocalGetBuffer(fs, location, f.code)
    ELSE IF d = "s3" THEN S3GetBuffer(fs, location, f)
    ELSE IF d = "gcs" THEN GcsGetBuffer(fs, location, f)
    ELSE AzureGetBuffer(fs, location, f)

DoDelete(d, fs, location, f) ==
    IF d = "local" THEN LocalDelete(fs, location, f.code)
    ELSE IF d = "s3" THEN S3Delete(fs, location, f)
    ELSE IF d = "gcs" THEN GcsDelete(fs, location, f)
    ELSE AzureDelete(fs, location, f)

DoCopy(d, fs, src, dest, f, absentCode) ==
    IF d = "local" THEN LocalCopy(fs, src, dest, f.code)
    ELSE IF d = "s3" THEN S3Copy(fs, src, dest, f)
    ELSE IF d = "gcs" THEN GcsCopy(fs, src, dest, f)
    ELSE AzureCopy(fs, src, dest, f, absentCode)

DoMove(d, fs, src, dest, f1, f2, sameIsNoop, absentCode) ==
    IF d = "local" THEN LocalMove(fs, src, dest, f1.code, sameIsNoop)
    ELSE IF d = "s3" THEN S3Move(fs, src, dest, f1, f2)
    ELSE IF d = "gcs" THEN GcsMove(fs, src, dest, f1, f2, sameIsNoop)
    ELSE AzureMove(fs, src, dest, f1, f2, absentCode)

DoPut(d, fs, location, content, f1, f2) ==
    IF d = "local" THEN LocalPut(fs, location, content, f1.code, f2.code)
    ELSE IF d = "s3" THEN S3Put(fs, location, content, f2)
    ELSE IF d = "gcs" THEN GcsPut(fs, location, content, f2)
    ELSE AzurePut(fs, location, content, f2)

\* the error event of a read stream that carries the backend's own error
NativeEvent(err) == Thrown("native", err.path, err.code)

\* what the stream of getStream delivers once it is opened and drained: the
\* bytes and an end event, or an error event.  LocalStorage, S3 and GCS hand
\* out the SDK's stream, which emits the backend's error as it is; Azure pipes
\* the download into a PassThrough and emits the converted error on it.
DoStream(d, fs, location, f) ==
    LET r == IF d = "local" THEN readFile(fs, thisFullPath(location), f.code)
             ELSE IF d = "s3" THEN sdkRead(fs, location, f, S3NoSuchKey)
             ELSE IF d = "gcs" THEN sdkRead(fs, location, f, GcsNotFound)
             ELSE sdkRead(fs, location, f, AzureBlobNotFound)
        failed == IF d = "local" THEN r.err.code # "" ELSE r.err # NoError
    IN IF ~failed THEN Ret(fs, TRUE, NoThrow, "", r.data)
       ELSE IF d = "azure" THEN Fail(fs, AzureConvertError(AtUrl(r.err, location)))
       ELSE Fail(fs, NativeEvent(r.err))

\* the objects are at most MaxDepth directories below the root
Shallow(d, fs) ==
    d = "local" => \A k \in DOMAIN fs : Len(Split(k)) - Len(Split(root)) <= MaxDepth

\* object stores have flat keys: three of the locations make every case
LocsOf(d) == IF d = "local" THEN Locs ELSE Locs \ {LocDA}

\* the choices that only some drivers read are pinned for the others
SameIsNoopChoices(d, src, dest) ==
    IF d \in {"local", "gcs"} /\ Key(d, src) = Key(d, dest) THEN BOOLEAN ELSE {FALSE}
AbsentCodeChoices(d) == IF d = "azure" THEN AzureAbsentCodes ELSE {"BlobNotFound"}
SecondFaults(d) == IF d = "local" THEN {NoError} ELSE Faults(d)
FirstFaults(d) == IF d = "local" THEN Faults(d) ELSE {NoError}

Exists(location) ==
    \E f \in Faults(driver) :
        LET r == DoExists(driver, store, location, f)
        IN /\ last' = Call("exists", location, <<>>, "", <<>>, <<f.code>>, r)
           /\ store' = r.store
           /\ UNCHANGED <<driver, pending>>

GetBuffer(location) ==
    \E f \in Faults(driver) :
        LET r == DoGetBuffer(driver, store, location, f)
        IN /\ last' = Call("getBuffer", location, <<>>, "", <<>>, <<f.code>>, r)
           /\ store' = r.store
           /\ UNCHANGED <<driver, pending>>

\* getStream, and the consumer draining the stream it hands back
GetStream(location) ==
    \E f \in Faults(driver) :
        LET r == DoStream(driver, store, location, f)
        IN /\ last' = Call("getStream", location, <<>>, "", <<>>, <<f.code>>, r)
           /\ store' = r.store
           /\ UNCHANGED <<driver, pending>>

Delete(location) ==
    \E f \in Faults(driver) :
        LET r == DoDelete(driver, store, location, f)
        IN /\ last' = Call("delete", location, <<>>, "", <<>>, <<f.code>>, r)
           /\ store' = r.store
           /\ UNCHANGED <<driver, pending>>

Copy(src, dest) ==
    \E f \in Faults(driver), absentCode \in AbsentCodeChoices(driver) :
        LET r == DoCopy(driver, store, src, dest, f, absentCode)
        IN /\ Shallow(driver, r.store)
           /\ last' = Call("copy", src, dest, "", <<>>, <<f.code>>, r)
           /\ store' = r.store
           /\ UNCHANGED <<driver, pending>>

Move(src, dest) ==
    \E f1 \in Faults(driver), f2 \in SecondFaults(driver),
       sameIsNoop \in SameIsNoopChoices(driver, src, dest),
       absentCode \in AbsentCodeChoices(driver) :
        LET r == DoMove(driver, store, src, dest, f1, f2, sameIsNoop, absentCode)
        IN /\ Shallow(driver, r.store)
           /\ last' = Call("move", src, dest, "", <<>>, <<f1.code, f2.code>>, r)
           /\ store' = r.store
           /\ UNCHANGED <<driver, pending>>

Put(location, content) ==
    \E f1 \in FirstFaults(driver), f2 \in Faults(driver) :
        LET r == DoPut(driver, store, location, content, f1, f2)
        IN /\ last' = Call("put", location, <<>>, content.type, BytesOf(content),
                           <<f1.code, f2.code>>, r)
           /\ store' = r.store
           /\ UNCHANGED <<driver, pending>>

Next ==
    \/ \E l \in LocsOf(driver) : Exists(l)
    \/ \E l \in LocsOf(driver) : GetBuffer(l)
    \/ \E l \in LocsOf(driver) : GetStream(l)
    \/ \E l \in LocsOf(driver) : Delete(l)
    \/ \E s \in LocsOf(driver), t \in LocsOf(driver) : Copy(s, t)
    \/ \E s \in LocsOf(driver), t \in LocsOf(driver) : Move(s, t)
    \/ \E l \in LocsOf(driver), c \in Contents : Put(l, c)

Spec == Init /\ [][Next]_vars

-----------------------------------------------------------------------------
(* Path resolution on its own: a fresh LocalStorage and one put at any      *)
(* location string of up to MaxLocLen characters                            *)

PathChars == {SLASH, ".", "a", "d"}

PathLocs == SeqsUpTo(PathChars, MaxLocLen)

InitPath ==
    /\ driver = "local"
    /\ store = EmptyStore("local")
    /\ last = NoCall
    /\ pending = NoPending

PathPut(location) ==
    /\ LET r == LocalPut(store, location, BufferContent, "", "")
       IN /\ last' = Call("put", location, <<>>, BufferContent.type, BytesOf(BufferContent),
                          <<"", "">>, r)
          /\ store' = r.store
    /\ UNCHANGED <<driver, pending>>

\* one put on the fresh driver
NextPath == last.op = "init" /\ \E l \in PathLocs : PathPut(l)

SpecPath == InitPath /\ [][NextPath]_vars

-----------------------------------------------------------------------------
(* C10 *)

\* the path is the root directory or lies below it
InsideRoot(p) == p = root \/ StartsWith(p, root \o <<SLASH>>)

\* the path below the root, segment by segment
BelowRoot(p) == Split(SubSeq(p, Len(root) + 2, Len(p)))

\* C10: for every location string, the path LocalStorage resolves is the root
\* joined with the lexical normalisation of '/' + location; it is the root or
\* a path below it, with no '.' or '..' segment left; leading '..' segments and
\* a leading '/' change nothing; and what put writes lands inside the root.
C10_PathClamped ==
    last.op = "put" =>
        LET p == fullPath(last.loc)
        IN /\ p = join(root, normalize(<<SLASH>> \o last.loc))
           /\ InsideRoot(p)
           /\ \A i \in 1..Len(BelowRoot(p)) : BelowRoot(p)[i] \notin {DOT, DOTDOT}
           /\ fullPath(DOTDOT \o <<SLASH>> \o last.loc) = p
           /\ fullPath(<<SLASH>> \o last.loc) = p
           /\ \A k \in DOMAIN store : InsideRoot(k)
           /\ last.ok => IsFile(store, p) /\ store[p].data = last.given
           /\ last.loc \in {<<".", ".", SLASH, ".", ".", SLASH, "a">>, <<SLASH, "a">>,
                            <<"d", SLASH, ".", ".", SLASH, "a">>}
                  => p = root \o <<SLASH, "a">> /\ last.ok

\* a put at '../../a' has written the root's own file a
C10_Witness ==
    /\ last.op = "put"
    /\ last.loc = <<".", ".", SLASH, ".", ".", SLASH, "a">>
    /\ last.ok
    /\ IsFile(store, root \o <<SLASH, "a">>)

-----------------------------------------------------------------------------
(* Claims about the state machine *)

KeyOf(location) == Key(driver, location)

\* no error was injected into the backend calls of the call
NoFault(call) == \A i \in 1..Len(call.faults) : call.faults[i] = ""

Reads == {"exists", "getBuffer", "getStream"}

\* C1: in every backend, a put(L, C) that returns, with C a buffer, a string or
\* a readable stream, followed by getBuffer(L), or by getStream(L) drained to
\* its end, yields exactly the bytes of C: the read succeeds unless the backend
\* fails it, and a read never changes what is stored.
C1_RoundTrip ==
    [][ /\ last'.op \in Reads => store' = store
        /\ (/\ last.op = "put"
            /\ last.ok
            /\ last'.op \in {"getBuffer", "getStream"}
            /\ last'.loc = last.loc)
           => /\ last'.ok => last'.content = last.given
              /\ NoFault(last') => last'.ok ]_vars

\* a string with a two-byte character has been put and read back from a stream
C1_Witness ==
    /\ last.op = "getStream"
    /\ last.ok
    /\ last.content = Utf8(StringContent.chars)
    /\ Len(last.content) = 2
    /\ IsFile(store, KeyOf(last.loc))

\* C2: in every backend, exists(L) on a location that is not present answers
\* exists = false and does not throw; exists throws only when the backend
\* reports a failure other than not-found, and then throws that failure.
C2_ExistsAbsent ==
    [][ last'.op = "exists" =>
            /\ (~Has(store, KeyOf(last'.loc)) /\ NoFault(last'))
                   => last'.ok /\ last'.flag = "false"
            /\ ~last'.ok => /\ ~NoFault(last')
                            /\ last'.cause = last'.faults[1]
                            /\ last'.kind \notin {"", "FileNotFound"} ]_vars

\* the S3 driver has answered exists = false for a key that is not there
C2_Witness ==
    /\ driver = "s3"
    /\ last.op = "exists"
    /\ last.ok
    /\ last.flag = "false"
    /\ NoFault(last)
    /\ ~Has(store, KeyOf(last.loc))

\* C3: getBuffer(L) on a location absent from the backend throws FileNotFound,
\* and the location the error carries is the string L the caller passed.
C3_NotFoundCarriesLocation ==
    [][ (/\ last'.op = "getBuffer"
         /\ NoFault(last')
         /\ ~Has(store, KeyOf(last'.loc))
         /\ driver = "local" => ~BlockedByFile(store, KeyOf(last'.loc)))
        => /\ ~last'.ok
           /\ last'.kind = "FileNotFound"
           /\ last'.epath = last'.loc ]_vars

\* getBuffer has thrown FileNotFound for a location that is not there
C3_Witness ==
    /\ last.op = "getBuffer"
    /\ ~last.ok
    /\ last.kind = "FileNotFound"
    /\ ~Has(store, KeyOf(last.loc))

\* C4: a delete(L) that returns leaves nothing at L, and an exists(L) that
\* follows it answers exists = false.
C4_DeleteThenExists ==
    [][ /\ (last'.op = "delete" /\ last'.ok) => ~Has(store', KeyOf(last'.loc))
        /\ (/\ last.op = "delete"
            /\ last.ok
            /\ last'.op = "exists"
            /\ last'.loc = last.loc)
           => /\ last'.ok => last'.flag = "false"
              /\ NoFault(last') => last'.ok ]_vars

\* delete has removed an object that was there and reported it
C4_Witness ==
    /\ driver = "local"
    /\ last.op = "delete"
    /\ last.ok
    /\ last.flag = "true"
    /\ last.loc = LocUpA
    /\ ~Has(store, KeyOf(LocA))

\* the kinds of ../Exceptions a backend error translates to
BackendKinds ==
    {"FileNotFound", "PermissionMissing", "AuthorizationRequired", "NoSuchBucket",
     "WrongKeyPath", "UnknownException"}

Objects(fs) == {k \in DOMAIN fs : ~fs[k].dir}

\* C6: a copy(src, dest) that returns, with src holding an object, leaves src
\* as it was and dest holding what src held; no other object appears, goes or
\* changes.
C6_CopyFrame ==
    [][ (last'.op = "copy" /\ last'.ok /\ IsFile(store, KeyOf(last'.loc))) =>
            LET ks == KeyOf(last'.loc)
                kd == KeyOf(last'.dest)
            IN /\ IsFile(store', ks) /\ store'[ks] = store[ks]
               /\ IsFile(store', kd) /\ store'[kd] = store[ks]
               /\ Objects(store') = Objects(store) \cup {kd}
               /\ \A k \in Objects(store) \ {kd} : store'[k] = store[k] ]_vars

\* a copy has put the content of a over a different content at d
C6_Witness ==
    /\ last.op = "copy"
    /\ last.ok
    /\ last.loc = LocA
    /\ last.dest = LocD
    /\ IsFile(store, KeyOf(LocA))
    /\ IsFile(store, KeyOf(LocUpA))
    /\ store[KeyOf(LocD)] = store[KeyOf(LocA)]
    /\ store[KeyOf(LocUpA)].data = <<7>>
    /\ store[KeyOf(LocA)].data = <<195, 169>>
    /\ driver = "s3"

DeleteFaultThrown(d, location, code) ==
    IF d = "s3" THEN S3HandleError(NativeError(code, 403, <<>>), location, bucket)
    ELSE AzureConvertError(NativeError(code, 403, blobUrl(location)))

\* C8: in the S3 and Azure drivers, when the copy step of move succeeds and the
\* delete step fails, move rejects with the translated error of the delete
\* step, and afterwards src is as it was and dest holds a copy of it: the copy
\* is not rolled back and the delete is not tried again.
C8_MoveNotAtomic ==
    [][ (/\ last'.op = "move"
         /\ driver \in {"s3", "azure"}
         /\ last'.faults[1] = ""
         /\ last'.faults[2] # ""
         /\ Has(store, KeyOf(last'.loc))
         /\ driver = "s3" => last'.loc # last'.dest)
        => LET e == DeleteFaultThrown(driver, last'.loc, last'.faults[2])
           IN /\ ~last'.ok
              /\ last'.kind = e.kind
              /\ last'.epath = e.epath
              /\ last'.cause = last'.faults[2]
              /\ Has(store', KeyOf(last'.loc))
              /\ Has(store', KeyOf(last'.dest))
              /\ store'[KeyOf(last'.loc)] = store[KeyOf(last'.loc)]
              /\ store'[KeyOf(last'.dest)] = store[KeyOf(last'.loc)] ]_vars

\* an Azure move has failed in its delete step and left the object at both places
C8_Witness ==
    /\ driver = "azure"
    /\ last.op = "move"
    /\ ~last.ok
    /\ last.faults = <<"", "AuthenticationFailed">>
    /\ last.kind = "AuthorizationRequired"
    /\ last.loc # last.dest
    /\ Has(store, KeyOf(last.loc))
    /\ Has(store, KeyOf(last.dest))
    /\ store[KeyOf(last.loc)] = store[KeyOf(last.dest)]

\* C9: in every driver, put(L, content) with content that is no buffer, no
\* readable stream and no string fails with InvalidInput, never with a
\* translated backend error, and nothing is written.
C9_InvalidInput ==
    [][ (last'.op = "put" /\ last'.ctype = "other") =>
            /\ ~last'.ok
            /\ last'.kind = "InvalidInput"
            /\ store' = store ]_vars

\* a put of such a content has been refused with InvalidInput
C9_Witness ==
    /\ last.op = "put"
    /\ last.ctype = "other"
    /\ ~last.ok
    /\ last.kind = "InvalidInput"

-----------------------------------------------------------------------------
(* Read streams, event by event: getStream hands a stream back at once and  *)
(* the backend's answer arrives on it afterwards                            *)

\* the backends a stream is read from: nothing stored, or one object at a
StreamStores(d) ==
    {EmptyStore(d), SetNode(EmptyStore(d), Key(d, LocA), FileNode(<<195, 169>>))}

\* the events of a Readable
ErrorEvent(thrown) == [name |-> "error", thrown |-> thrown, bytes |-> <<>>]
DataEvent(bytes) == [name |-> "data", thrown |-> NoThrow, bytes |-> bytes]
EndEvent == [name |-> "end", thrown |-> NoThrow, bytes |-> <<>>]
CloseEvent == [name |-> "close", thrown |-> NoThrow, bytes |-> <<>>]

\* a stream handed back by getStream: the location it reads, the error the
\* backend will answer the read with (none: NoError), how far it is, the bytes
\* still to come, and the events it has emitted
Stream(loc, fault, phase, rest, events) ==
    [kind |-> "stream", loc |-> loc, fault |-> fault, phase |-> phase, rest |-> rest,
     events |-> events]

\* whether the driver's stream destroys itself, and so emits close, after an
\* error at its opening or after its end: fs.ReadStream does (autoClose)
ClosesItself(d) == d = "local"

\* a stream that ends after its error event
openedEndsAfterError(d, fs, s) ==
    LET r == DoStream(d, fs, s.loc, s.fault)
    IN IF r.ok THEN Stream(s.loc, s.fault, "flowing", r.content, s.events)
       ELSE Stream(s.loc, s.fault, "ended", <<>>,
                   s.events \o <<ErrorEvent(r.thrown), EndEvent>>)

\* the backend answers the read the stream was created for: the stream starts
\* to flow, or emits the error (Azure: stream.emit('error', convertError(e)))
opened(d, fs, s) ==
    LET r == DoStream(d, fs, s.loc, s.fault)
    IN IF r.ok THEN Stream(s.loc, s.fault, "flowing", r.content, s.events)
       ELSE Stream(s.loc, s.fault, "errored", <<>>, Append(s.events, ErrorEvent(r.thrown)))

InitStream ==
    /\ driver \in Drivers
    /\ store \in StreamStores(driver)
    /\ last = NoCall
    /\ pending = NoPending

\* getStream: returns the stream; no backend call has been answered yet
StreamGet(location) ==
    /\ pending.kind = "none"
    /\ \E f \in Faults(driver) :
           /\ pending' = Stream(location, f, "handed", <<>>, <<>>)
           /\ last' = Call("getStream", location, <<>>, "", <<>>, <<f.code>>, Ok(store))
    /\ UNCHANGED <<driver, store>>

StreamOpen ==
    /\ pending.kind = "stream"
    /\ pending.phase = "handed"
    /\ pending' = opened(driver, store, pending)
    /\ UNCHANGED <<driver, store, last>>

\* one chunk (here: one byte) arrives
StreamData ==
    /\ pending.kind = "stream"
    /\ pending.phase = "flowing"
    /\ pending.rest # <<>>
    /\ pending' = [pending EXCEPT !.rest = Tail(@),
                                  !.events = Append(@, DataEvent(<<Head(pending.rest)>>))]
    /\ UNCHANGED <<driver, store, last>>

\* AzureBlockBlobStorage.getStream: the download fails while it is piped;
\* downloaded.on('error', e => stream.destroy(convertError(e)))
StreamSourceError ==
    /\ driver = "azure"
    /\ pending.kind = "stream"
    /\ pending.phase = "flowing"
    /\ pending.rest # <<>>
    /\ \E f \in Faults(driver) \ {NoError} :
           pending' = [pending EXCEPT
                           !.phase = "destroyed",
                           !.rest = <<>>,
                           !.events = Append(@, ErrorEvent(AzureConvertError(
                                                    AtUrl(f, pending.loc))))]
    /\ UNCHANGED <<driver, store, last>>

\* the source is exhausted: the stream ends
StreamEnd ==
    /\ pending.kind = "stream"
    /\ pending.phase = "flowing"
    /\ pending.rest = <<>>
    /\ pending' = [pending EXCEPT !.phase = "ended", !.events = Append(@, EndEvent)]
    /\ UNCHANGED <<driver, store, last>>

\* a destroyed stream emits close
StreamClose ==
    /\ pending.kind = "stream"
    /\ \/ pending.phase = "destroyed"
       \/ pending.phase \in {"errored", "ended"} /\ ClosesItself(driver)
    /\ pending' = [pending EXCEPT !.phase = "closed", !.events = Append(@, CloseEvent)]
    /\ UNCHANGED <<driver, store, last>>

NextStream ==
    \/ \E l \in LocsOf(driver) : StreamGet(l)
    \/ StreamOpen
    \/ StreamData
    \/ StreamSourceError
    \/ StreamEnd
    \/ StreamClose

\* the backend answers every read it is sent
SpecStream == InitStream /\ [][NextStream]_vars /\ WF_vars(StreamOpen)

\* the events of that name among the events
EventsNamed(events, name) == {i \in 1..Len(events) : events[i].name = name}

\* C11: getStream(L) on a location that holds nothing returns the stream
\* without throwing; nothing has been emitted when it is handed back; the
\* failure arrives afterwards as an error event; and at any time later the
\* stream has emitted exactly one error event, first of all, and no data and
\* no end event.
C11_StreamErrorEvent ==
    /\ [](pending.kind = "stream" /\ ~Has(store, KeyOf(pending.loc))
            => /\ last.op = "getStream" /\ last.ok /\ last.loc = pending.loc
               /\ pending.phase = "handed" => pending.events = <<>>
               /\ pending.phase # "handed"
                    => /\ Cardinality(EventsNamed(pending.events, "error")) = 1
                       /\ pending.events[1].name = "error"
                       /\ EventsNamed(pending.events, "end") = {}
                       /\ EventsNamed(pending.events, "data") = {})
    /\ (pending.kind = "stream" /\ ~Has(store, KeyOf(pending.loc))
            /\ pending.phase = "handed")
         ~> (pending.kind = "stream" /\ EventsNamed(pending.events, "error") # {})

\* the S3 stream of a key that is not there has emitted its error event
C11_Witness ==
    /\ driver = "s3"
    /\ pending.kind = "stream"
    /\ pending.fault = NoError
    /\ ~Has(store, KeyOf(pending.loc))
    /\ pending.phase = "errored"
    /\ Len(pending.events) = 1
    /\ pending.events[1].name = "error"
    /\ pending.events[1].thrown.cause = "NoSuchKey"

-----------------------------------------------------------------------------
(* put of a stream, event by event, in the drivers that pipe the stream     *)
(* themselves (LocalStorage and GoogleCloudStorage):                        *)
(*     const ws = createWriteStream(...); await pipeline(content, ws)       *)

PipeDrivers == {"local", "gcs"}

\* a put at work: its arguments, the chunks the source has still to emit, the
\* source ("open", "ended", "failed", "destroyed"), the sink ("open",
\* "finished": all written and flushed, "closed", "failed", "destroyed"), the
\* error that stopped the pipe, and how the promise of put has settled so far
Piping(loc, content, left, src, sink, err, settled) ==
    [kind |-> "put", loc |-> loc, content |-> content, left |-> left, src |-> src,
     sink |-> sink, err |-> err, settled |-> settled]

\* utils.pipeline(source, sink): the promise it returns is rejected as soon
\* as one of the two streams has failed and fulfilled once the sink is closed
pipelineState(p) ==
    IF p.src = "failed" \/ p.sink = "failed" THEN "rejected"
    ELSE IF p.sink = "closed" THEN "fulfilled"
    ELSE "pending"

\* what the sink has made of the bytes so far: the local write stream creates
\* (or truncates) the file when it opens and writes each chunk into it; the
\* GCS upload makes the object when it completes
SinkOpened(d, fs, k) == IF d = "local" THEN SetNode(fs, k, FileNode(<<>>)) ELSE fs
SinkWrote(d, fs, k, chunk) ==
    IF d = "local" THEN SetNode(fs, k, FileNode(fs[k].data \o chunk)) ELSE fs
SinkFinished(d, fs, k, content) ==
    IF d = "local" THEN fs ELSE SetNode(fs, k, FileNode(BytesOf(content)))

\* a put that answers as if nothing had failed
putSettledAlwaysResolves(d, fs, p) == Ok(fs)

\* the rest of put once the awaited pipeline has settled: { raw: undefined },
\* or catch (e) { throw handleError(e, location) }
putSettled(d, fs, p) ==
    IF pipelineState(p) = "fulfilled" THEN Ok(fs)
    ELSE IF d = "local" THEN Fail(fs, LocalHandleError(p.err, p.loc))
    ELSE Fail(fs, GcsHandleError(p.err, p.loc))

InitPipe ==
    /\ driver \in PipeDrivers
    /\ store = EmptyStore(driver)
    /\ last = NoCall
    /\ pending = NoPending

\* put(location, stream) up to its await of the pipeline.  LocalStorage makes
\* the directory first, and when that fails put rejects with no stream opened
PipePut(location, content) ==
    /\ pending.kind = "none"
    /\ \E f \in FirstFaults(driver) :
           LET made == IF driver = "local"
                       THEN ensureDir(store, dirname(thisFullPath(location)), f.code)
                       ELSE FsRet(store, "", <<>>, <<>>)
               k == Key(driver, location)
           IN IF made.err.code # ""
              THEN /\ pending' = Piping(location, content, content.chunks, "open", "none",
                                        made.err, <<"rejected">>)
                   /\ last' = Call("put", location, <<>>, content.type, BytesOf(content),
                                   <<f.code, "">>,
                                   Fail(made.fs, LocalHandleError(made.err, location)))
                   /\ store' = made.fs
              ELSE /\ ~IsDir(made.fs, k)
                   /\ pending' = Piping(location, content, content.chunks, "open", "open",
                                        NoError, <<>>)
                   /\ store' = SinkOpened(driver, made.fs, k)
                   /\ UNCHANGED last
    /\ UNCHANGED driver

\* the pipe is running: both streams are open
Running == pending.kind = "put" /\ pending.src = "open" /\ pending.sink = "open"

\* one chunk goes from the source into the sink
PipeChunk ==
    /\ Running
    /\ pending.left # <<>>
    /\ pending' = [pending EXCEPT !.left = Tail(@)]
    /\ store' = SinkWrote(driver, store, Key(driver, pending.loc), Head(pending.left))
    /\ UNCHANGED <<driver, last>>

\* the source has emitted all it has and ends; pipe ends the sink
PipeSourceEnd ==
    /\ Running
    /\ pending.left = <<>>
    /\ ~pending.content.fails
    /\ pending' = [pending EXCEPT !.src = "ended"]
    /\ UNCHANGED <<driver, store, last>>

\* the source emits an error instead of ending; pipeline destroys the sink
PipeSourceError ==
    /\ Running
    /\ pending.left = <<>>
    /\ pending.content.fails
    /\ pending' = [pending EXCEPT !.src = "failed", !.sink = "destroyed", !.err = SourceError]
    /\ UNCHANGED <<driver, store, last>>

\* the sink emits an error (the backend fails a write); pipeline destroys the source
PipeSinkError ==
    /\ pending.kind = "put"
    /\ pending.sink = "open"
    /\ pending.src \in {"open", "ended"}
    /\ \E f \in Faults(driver) \ {NoError} :
           pending' = [pending EXCEPT
                           !.sink = "failed",
                           !.src = IF @ = "open" THEN "destroyed" ELSE @,
                           !.err = [f EXCEPT !.path = Key(driver, pending.loc)]]
    /\ UNCHANGED <<driver, store, last>>

\* everything written has been flushed to the backend
PipeSinkFinish ==
    /\ pending.kind = "put"
    /\ pending.src = "ended"
    /\ pending.sink = "open"
    /\ pending' = [pending EXCEPT !.sink = "finished"]
    /\ store' = SinkFinished(driver, store, Key(driver, pending.loc), pending.content)
    /\ UNCHANGED <<driver, last>>

\* the sink closes
PipeSinkClose ==
    /\ pending.kind = "put"
    /\ pending.sink = "finished"
    /\ pending' = [pending EXCEPT !.sink = "closed"]
    /\ UNCHANGED <<driver, store, last>>

\* the pipeline has settled and put, which awaited it, settles
PipeSettle ==
    /\ pending.kind = "put"
    /\ pending.settled = <<>>
    /\ pipelineState(pending) # "pending"
    /\ LET r == putSettled(driver, store, pending)
       IN /\ pending' = [pending EXCEPT
                             !.settled = Append(@, IF r.ok THEN "resolved" ELSE "rejected")]
          /\ last' = Call("put", pending.loc, <<>>, pending.content.type,
                          BytesOf(pending.content), <<"", pending.err.code>>, r)
    /\ UNCHANGED <<driver, store>>

NextPipe ==
    \/ \E l \in LocsOf(driver), c \in {StreamContent, BrokenStream} : PipePut(l, c)
    \/ PipeChunk
    \/ PipeSourceEnd
    \/ PipeSourceError
    \/ PipeSinkError
    \/ PipeSinkFinish
    \/ PipeSinkClose
    \/ PipeSettle

\* a sink that has everything closes, and a settled promise runs its continuation
SpecPipe ==
    InitPipe /\ [][NextPipe]_vars /\ WF_vars(PipeSinkClose) /\ WF_vars(PipeSettle)

\* a stream of the put has emitted an error
PipeFailed == pending.kind = "put" /\ (pending.src = "failed" \/ pending.sink = "failed")

\* both streams of the put are through: ended, failed or destroyed
PipeOver ==
    /\ pending.kind = "put"
    /\ pending.src \in {"ended", "failed", "destroyed"}
    /\ pending.sink \in {"finished", "closed", "failed", "destroyed"}

\* C12: put(L, stream) settles at most once; when it has resolved, the source
\* has ended, the sink is flushed and closed and no stream has failed; once a
\* stream has failed it does not resolve; and when both streams are through
\* it settles: it rejects if one failed and resolves otherwise.
C12_PutSettlesOnce ==
    /\ [](pending.kind = "put"
            => /\ Len(pending.settled) <= 1
               /\ pending.settled = <<"resolved">>
                    => /\ pending.src = "ended" /\ pending.sink = "closed"
                       /\ last.op = "put" /\ last.ok
               /\ PipeFailed => pending.settled # <<"resolved">>
               /\ pending.settled = <<"rejected">> => last.op = "put" /\ ~last.ok)
    /\ [][pending.kind = "put" /\ pending.settled # <<>>
            => pending'.settled = pending.settled]_vars
    /\ (PipeOver /\ PipeFailed) ~> (pending.kind = "put" /\ pending.settled = <<"rejected">>)
    /\ (PipeOver /\ ~PipeFailed) ~> (pending.kind = "put" /\ pending.settled = <<"resolved">>)

\* a put has been rejected for the error of its sink after a chunk went through
C12_Witness ==
    /\ pending.kind = "put"
    /\ pending.sink = "failed"
    /\ pending.left = <<<<169>>>>
    /\ pending.settled = <<"rejected">>
    /\ ~last.ok

-----------------------------------------------------------------------------
(* Claims about failed stream uploads *)

\* C13: a put(L, stream) that fails after bytes of the stream were
\* transferred leaves L as it was before the call, or holding nothing: never
\* a part of the stream.
C13_NoPartialWrite ==
    [][ (/\ last'.op = "put"
         /\ last'.ctype = "stream"
         /\ ~last'.ok)
        => \/ ~Has(store', KeyOf(last'.loc))
           \/ /\ Has(store, KeyOf(last'.loc))
              /\ store'[KeyOf(last'.loc)] = store[KeyOf(last'.loc)] ]_vars

\* a failed put of a stream has left the first chunk of the stream in the file
C13_Witness ==
    /\ driver = "local"
    /\ last.op = "put"
    /\ last.ctype = "stream"
    /\ ~last.ok
    /\ last.cause = SourceError.code
    /\ IsFile(store, KeyOf(last.loc))
    /\ store[KeyOf(last.loc)].data = <<195>>

-----------------------------------------------------------------------------
(* flatList: the async generator of each driver, the consumer that pulls    *)
(* entries from it, and the backend that answers its page requests          *)

\* entries per page of the backend's listing (MaxKeys: 1000 in the S3 driver)
PageSize == 2

\* the keys that can be stored, in the order the object stores list them
ListKeys == << <<"a">>, <<"d", SLASH, "a">>, <<"d", SLASH, "b">>, <<"d", "a">> >>

\* the prefixes listed: none, a name, a directory, a file taken for a
\* directory, a name nothing has, and one that climbs above the root
ListPrefixes ==
    {<<>>, <<"d">>, <<"d", SLASH>>, <<"a", SLASH>>, <<"x">>, <<".", ".", SLASH, "d">>}

\* the backend holding these keys
ListStore(d, keys) ==
    LET ks == {Key(d, k) : k \in keys}
        dirs == IF d = "local" THEN {root} \cup UNION {Above(p) : p \in ks} ELSE {}
    IN [p \in ks \cup dirs |-> IF p \in ks THEN FileNode(<<7>>) ELSE DirNode]

\* the keys of the set, in listing order
InOrder(S) == SelectSeq(ListKeys, LAMBDA k : k \in S)

\* the keys that can be stored, as a set
ListedKeys == {ListKeys[i] : i \in 1..Len(ListKeys)}

\* the elements of a set one after the other
RECURSIVE SomeOrder(_)
SomeOrder(S) ==
    IF S = {} THEN <<>> ELSE LET x == CHOOSE y \in S : TRUE IN <<x>> \o SomeOrder(S \ {x})

\* a page of a listing: its entries, the key to resume after (<<>>: none),
\* whether the listing goes on after it, and what was thrown instead
ListPage(entries, token, more, thrown) ==
    [entries |-> entries, token |-> token, more |-> more, thrown |-> thrown]

\* the place of a key in the listing order
Rank(k) == CHOOSE i \in 1..Len(ListKeys) : ListKeys[i] = k

\* the service's page: the first PageSize keys with the prefix after the token
pageAfter(fs, prefix, token) ==
    LET all == InOrder({k \in Objects(fs) : StartsWith(k, prefix)})
        rest == SelectSeq(all, LAMBDA k : token = <<>> \/ Rank(k) > Rank(token))
        n == IF Len(rest) < PageSize THEN Len(rest) ELSE PageSize
    IN ListPage(SubSeq(rest, 1, n), IF n = 0 THEN <<>> ELSE rest[n], Len(rest) > n, NoThrow)

\* S3.listObjects({Bucket, Prefix, Marker, MaxKeys}): Contents and NextMarker.
\* The service sends NextMarker only for a request with a Delimiter, which this
\* request has not; some S3-compatible servers send it always (sendsNextMarker)
listObjects(fs, prefix, marker, sendsNextMarker) ==
    LET p == pageAfter(fs, prefix, marker)
    IN IF p.more /\ sendsNextMarker THEN p ELSE ListPage(p.entries, <<>>, p.more, NoThrow)

\* the segments of an absolute, normalised path
Segments(path) == SelectSeq(Split(path), LAMBDA seg : seg # <<>>)

\* the number of leading segments two paths share
RECURSIVE SharedSegments(_, _)
SharedSegments(a, b) ==
    IF Len(a) = 0 \/ Len(b) = 0 \/ Head(a) # Head(b) THEN 0
    ELSE 1 + SharedSegments(Tail(a), Tail(b))

\* a faulty path of an entry: the file's absolute path
relativeKeepsRoot(fileName) == fileName

\* path.relative(this.$root, fileName): '..' for every segment of the root
\* the file is not below, then the segments of the file below what they share
relative(fileName) ==
    LET from == Segments(root)
        to == Segments(fileName)
        shared == SharedSegments(from, to)
    IN JoinSegs([i \in 1..(Len(from) - shared) |-> DOTDOT] \o SubSeq(to, shared + 1, Len(to)))

\* LocalStorage.flatListAbsolute: the files of the prefix's directory whose
\* path starts with the prefix, those below its matching directories
\* included; a directory that is not there lists nothing
RECURSIVE flatListAbsolute(_, _)
flatListAbsolute(fs, prefix) ==
    LET prefixDirectory == IF prefix[Len(prefix)] = SLASH THEN prefix ELSE dirname(prefix)
        dir == Strip(prefixDirectory)
        code == IF IsFile(fs, dir) THEN "ENOTDIR" ELSE LookupError(fs, prefixDirectory, "")
        e == LocalHandleError(NativeError(code, 0, prefixDirectory), prefixDirectory)
        hits == {k \in DOMAIN fs : k # dir /\ dirname(k) = dir /\ StartsWith(k, prefix)}
        below == [k \in hits |-> IF fs[k].dir THEN flatListAbsolute(fs, k \o <<SLASH>>)
                                 ELSE [paths |-> {relative(k)}, thrown |-> NoThrow]]
        failed == {k \in hits : below[k].thrown # NoThrow}
    IN IF code # ""
       THEN [paths |-> {}, thrown |-> IF e.kind = "FileNotFound" THEN NoThrow ELSE e]
       ELSE [paths |-> UNION {below[k].paths : k \in hits},
             thrown |-> IF failed = {} THEN NoThrow ELSE below[CHOOSE k \in failed : TRUE].thrown]

\* the answer to the generator's request for the entries after the token
pageOf(d, fs, prefix, token, sendsNextMarker) ==
    IF d = "s3" THEN listObjects(fs, prefix, token, sendsNextMarker)
    ELSE IF d = "local"
         THEN LET r == flatListAbsolute(fs, thisFullPath(prefix))
              IN ListPage(InOrder(r.paths) \o SomeOrder(r.paths \ ListedKeys), <<>>, FALSE, r.thrown)
    ELSE pageAfter(fs, prefix, token)

\* whether the generator's loop goes round again after the page:
\* S3 while (marker), GCS while (nextQuery), Azure the SDK's own iterator
loopsOn(d, page) ==
    IF d = "s3" THEN page.token # <<>>
    ELSE IF d = "local" THEN FALSE
    ELSE page.more

\* the generator of flatList(prefix) and its consumer: where the generator
\* stands ("start": not run yet, "waiting": a page request is with the
\* backend, "suspended": at a yield, "done", "thrown"), the entries of the
\* page in hand not yet yielded, the token and whether the loop goes on, the
\* entries handed to the consumer, the page requests sent, the next() calls
\* of the consumer, and whether the consumer has stopped reading
Listing(prefix, phase, buffer, token, more, yielded, requests, asked, abandoned, server) ==
    [kind |-> "list", prefix |-> prefix, phase |-> phase, buffer |-> buffer,
     token |-> token, more |-> more, yielded |-> yielded, requests |-> requests,
     asked |-> asked, abandoned |-> abandoned, server |-> server]

\* a generator that fetches the next page as soon as it has yielded the last
\* entry of the page in hand
resumedEager(it) ==
    IF it.buffer # <<>>
    THEN [it EXCEPT !.phase = IF Len(it.buffer) = 1 /\ it.more THEN "waiting" ELSE "suspended",
                    !.requests = IF Len(it.buffer) = 1 /\ it.more THEN @ + 1 ELSE @,
                    !.yielded = Append(@, Head(it.buffer)),
                    !.buffer = Tail(@)]
    ELSE IF it.phase = "start" \/ it.more
         THEN [it EXCEPT !.phase = "waiting", !.requests = @ + 1]
    ELSE [it EXCEPT !.phase = "done"]

\* the generator runs on to its next suspension: it yields the next entry of
\* the page in hand; with none left it sends the request for the next page
\* if the loop goes on, and returns otherwise
resumed(it) ==
    IF it.buffer # <<>>
    THEN [it EXCEPT !.phase = "suspended",
                    !.yielded = Append(@, Head(it.buffer)),
                    !.buffer = Tail(@)]
    ELSE IF it.phase = "start" \/ it.more
         THEN [it EXCEPT !.phase = "waiting", !.requests = @ + 1]
    ELSE [it EXCEPT !.phase = "done"]

InitList ==
    /\ driver \in Drivers
    /\ \E keys \in SUBSET {ListKeys[i] : i \in 1..Len(ListKeys)} : store = ListStore(driver, keys)
    /\ last = NoCall
    /\ pending = NoPending

\* flatList(prefix): hands back the generator, which has not run yet
ListCall(prefix) ==
    /\ pending.kind = "none"
    /\ \E server \in (IF driver = "s3" THEN BOOLEAN ELSE {FALSE}) :
           pending' = Listing(prefix, "start", <<>>, <<>>, FALSE, <<>>, 0, 0, FALSE, server)
    /\ last' = Call("flatList", prefix, <<>>, "", <<>>, <<>>, Ok(store))
    /\ UNCHANGED <<driver, store>>

\* the consumer asks for the next entry
ListNext ==
    /\ pending.kind = "list"
    /\ pending.phase \in {"start", "suspended"}
    /\ pending' = resumed([pending EXCEPT !.asked = @ + 1])
    /\ UNCHANGED <<driver, store, last>>

\* the backend answers the page request, or fails it; the generator takes the
\* page and runs on.  No flatList of an object store translates the error
ListAnswer ==
    /\ pending.kind = "list"
    /\ pending.phase = "waiting"
    /\ \E f \in Faults(driver) :
           LET page == pageOf(driver, store, pending.prefix, pending.token, pending.server)
               thrown == IF f = NoError THEN page.thrown
                         ELSE IF driver = "local"
                         THEN LocalHandleError([f EXCEPT !.path = thisFullPath(pending.prefix)],
                                               thisFullPath(pending.prefix))
                         ELSE NativeEvent(f)
           IN IF thrown # NoThrow
              THEN /\ pending' = [pending EXCEPT !.phase = "thrown"]
                   /\ last' = Call("flatList", pending.prefix, <<>>, "", <<>>, <<f.code>>,
                                   Fail(store, thrown))
              ELSE /\ pending' = resumed([pending EXCEPT !.buffer = page.entries,
                                                         !.token = page.token,
                                                         !.more = loopsOn(driver, page)])
                   /\ UNCHANGED last
    /\ UNCHANGED <<driver, store>>

\* the consumer stops reading: it leaves its for await loop, which calls
\* return() on the suspended generator
ListAbandon ==
    /\ pending.kind = "list"
    /\ pending.phase \in {"start", "suspended"}
    /\ pending' = [pending EXCEPT !.phase = "done", !.abandoned = TRUE]
    /\ UNCHANGED <<driver, store, last>>

NextList ==
    \/ \E p \in ListPrefixes : ListCall(p)
    \/ ListNext
    \/ ListAnswer
    \/ ListAbandon

SpecList == InitList /\ [][NextList]_vars

\* the locations of the stored objects that start with the prefix
Matching(prefix) ==
    {k \in {ListKeys[i] : i \in 1..Len(ListKeys)} :
        IsFile(store, KeyOf(k)) /\ StartsWith(k, prefix)}

\* C14: in every backend, flatList(P) read to its end yields each stored
\* object whose key starts with P once and nothing else, over as many pages
\* as it takes, with no more page requests than entries plus one, and does
\* not throw when the backend fails no request.
C14_FlatListComplete ==
    pending.kind = "list" =>
        /\ pending.requests <= Cardinality(Matching(pending.prefix)) + 1
        /\ (pending.phase = "done" /\ ~pending.abandoned)
             => /\ {pending.yielded[i] : i \in 1..Len(pending.yielded)} = Matching(pending.prefix)
                /\ Len(pending.yielded) = Cardinality(Matching(pending.prefix))
        /\ (pending.phase = "thrown") => last.faults # <<"">>

\* the S3 listing of three objects has ended after the first page of two
C14_Witness ==
    /\ driver = "s3"
    /\ pending.kind = "list"
    /\ pending.phase = "done"
    /\ ~pending.abandoned
    /\ pending.prefix = <<"d">>
    /\ Cardinality(Matching(pending.prefix)) = 3
    /\ Len(pending.yielded) = PageSize
    /\ pending.requests = 1

\* C15: the generator of the S3 and GCS drivers sends a page request only to
\* serve a next() of the consumer that the entries in hand cannot serve: at
\* each request every entry of the earlier pages has been handed over and one
\* more has been asked for; and after the consumer has stopped reading no
\* request is sent.
C15_DemandDriven ==
    [][ (pending.kind = "list" /\ driver \in {"s3", "gcs"})
        => /\ pending'.requests > pending.requests
                => /\ pending'.requests = pending.requests + 1
                   /\ pending'.buffer = <<>>
                   /\ pending'.asked = Len(pending'.yielded) + 1
                   /\ Len(pending'.yielded) = Len(pending.yielded)
                   /\ ~pending'.abandoned
           /\ pending.abandoned => pending'.requests = pending.requests ]_vars

\* the GCS listing has sent its second page request, with the two entries of
\* the first page handed over and a third asked for
C15_Witness ==
    /\ driver = "gcs"
    /\ pending.kind = "list"
    /\ pending.phase = "waiting"
    /\ pending.requests = 2
    /\ Len(pending.yielded) = PageSize
    /\ pending.asked = PageSize + 1

-----------------------------------------------------------------------------
(* getUrl and getSignedUrl *)

\* the default of SignedUrlOptions.expiry, in seconds, as documented
DocumentedExpiry == 900

\* const { expiry = 900 } = options, in the S3 and in the GCS driver
S3DefaultExpiry == 900
GcsDefaultExpiry == 900

\* options && options.expiry || 3600, in the Azure driver
AzureDefaultExpiry == 3600

\* the options of getSignedUrl: none (<<>>), or the expiry in seconds
NoOptions == <<>>
SignedUrlOptions == {NoOptions, <<1>>, <<900>>, <<3600>>}

\* the clock readings of a call, in milliseconds
Clock == {0, 5000}

\* the unimplemented method of the Storage base class
MethodNotSupported == Thrown("MethodNotSupported", <<>>, "")

\* the signed URL as far as it matters here: the seconds it stays valid from
\* the moment of the call
SignedFor(fs, seconds) == Ret(fs, TRUE, NoThrow, "", <<seconds>>)

\* AmazonWebServicesS3Storage.getSignedUrl: Expires is a number of seconds
S3GetSignedUrl(fs, location, options, now, fault) ==
    LET expiry == IF options = NoOptions THEN S3DefaultExpiry ELSE options[1]
    IN IF fault # NoError THEN Fail(fs, S3HandleError(fault, location, bucket))
       ELSE SignedFor(fs, expiry)

\* GoogleCloudStorage.getSignedUrl: expires is a time, Date.now() + expiry * 1000
GcsGetSignedUrl(fs, location, options, now, fault) ==
    LET expiry == IF options = NoOptions THEN GcsDefaultExpiry ELSE options[1]
        expires == now + expiry * 1000
    IN IF fault # NoError THEN Fail(fs, GcsHandleError(fault, location))
       ELSE SignedFor(fs, (expires - now) \div 1000)

\* AzureBlockBlobStorage.getSignedUrl: expiresOn is a time; the token is
\* computed locally, and there is no try block
AzureGetSignedUrl(fs, location, options, now, fault) ==
    LET expiry == IF options # NoOptions /\ options[1] # 0 THEN options[1]
                  ELSE AzureDefaultExpiry
        expiresOn == now + expiry * 1000
    IN SignedFor(fs, (expiresOn - now) \div 1000)

\* a local driver that answers getUrl with a file URL
DoGetUrlOfFile(d, fs, location) ==
    Ret(fs, TRUE, NoThrow, "", <<"file://">> \o thisFullPath(location))

\* getUrl of each driver: S3 and GCS build the URL from the bucket and the
\* location; LocalStorage and AzureBlockBlobStorage define none and inherit
\* the method of Storage
DoGetUrl(d, fs, location) ==
    IF d = "s3" THEN Ret(fs, TRUE, NoThrow, "", <<"https://">> \o bucket
                                                  \o <<".s3.amazonaws.com/">> \o location)
    ELSE IF d = "gcs" THEN Ret(fs, TRUE, NoThrow, "", <<"https://storage.cloud.google.com/">>
                                                        \o bucket \o <<SLASH>> \o location)
    ELSE Fail(fs, MethodNotSupported)

\* getSignedUrl of each driver; LocalStorage defines none
DoGetSignedUrl(d, fs, location, options, now, fault) ==
    IF d = "s3" THEN S3GetSignedUrl(fs, location, options, now, fault)
    ELSE IF d = "gcs" THEN GcsGetSignedUrl(fs, location, options, now, fault)
    ELSE IF d = "azure" THEN AzureGetSignedUrl(fs, location, options, now, fault)
    ELSE Fail(fs, MethodNotSupported)

InitUrl ==
    /\ driver \in Drivers
    /\ store \in StreamStores(driver)
    /\ last = NoCall
    /\ pending = NoPending

GetUrl(location) ==
    LET r == DoGetUrl(driver, store, location)
    IN /\ last' = Call("getUrl", location, <<>>, "", <<>>, <<>>, r)
       /\ store' = r.store
       /\ UNCHANGED <<driver, pending>>

GetSignedUrl(location, options) ==
    \E f \in Faults(driver), now \in Clock :
        LET r == DoGetSignedUrl(driver, store, location, options, now, f)
        IN /\ last' = Call("getSignedUrl", location, <<>>, "", options, <<f.code>>, r)
           /\ store' = r.store
           /\ UNCHANGED <<driver, pending>>

NextUrl ==
    \/ \E l \in LocsOf(driver) : GetUrl(l)
    \/ \E l \in LocsOf(driver), o \in SignedUrlOptions : GetSignedUrl(l, o)

SpecUrl == InitUrl /\ [][NextUrl]_vars

\* C16: in the S3, GCS and Azure drivers a getSignedUrl(L) that returns gives
\* a URL valid for 900 seconds when no expiry was passed, and for e seconds
\* when the expiry e was passed.
C16_SignedUrlExpiry ==
    (last.op = "getSignedUrl" /\ driver \in {"s3", "gcs", "azure"} /\ last.ok)
        => last.content = << IF last.given = NoOptions THEN DocumentedExpiry
                             ELSE last.given[1] >>

\* the Azure driver has signed a URL for an hour for a call without options
C16_Witness ==
    /\ driver = "azure"
    /\ last.op = "getSignedUrl"
    /\ last.given = NoOptions
    /\ last.ok
    /\ last.content = <<3600>>

\* C17: on the local driver getUrl(L) and getSignedUrl(L) fail with
\* MethodNotSupported for every location and option, return nothing and leave
\* the stored state as it was.
C17_LocalUrlsNotSupported ==
    [][ (driver = "local" /\ last'.op \in {"getUrl", "getSignedUrl"})
        => /\ ~last'.ok
           /\ last'.kind = "MethodNotSupported"
           /\ last'.content = <<>>
           /\ store' = store ]_vars

\* getSignedUrl has been refused on a local root that holds a file
C17_Witness ==
    /\ driver = "local"
    /\ last.op = "getSignedUrl"
    /\ ~last.ok
    /\ last.kind = "MethodNotSupported"
    /\ IsFile(store, KeyOf(LocA))

-----------------------------------------------------------------------------
(* Error translation: the catch clause of getBuffer over the native errors a
   backend read can reject with *)

\* the native errors of a read of `location`: the codes each translator
\* knows, one it does not know, and an error with no code at all; an fs error
\* carries the path of the failed call, a RestError the request it answers
NativeErrors(d, location) ==
    IF d = "local" THEN
        {NativeError(c, 0, p) : c \in {"ENOENT", "EPERM", "EISDIR", ""},
                                p \in {thisFullPath(location), <<>>}}
    ELSE IF d = "s3" THEN
        {NativeError(c, 0, <<>>) : c \in {"NoSuchKey", "NoSuchBucket", "AllAccessDisabled", "SlowDown", ""}}
    ELSE IF d = "gcs" THEN
        {NativeError(c, 0, <<>>) : c \in {"401", "403", "404", "ENOENT", "500", ""}}
    ELSE
        {NativeError(c, s, u) : c \in {"BlobNotFound", "AuthenticationFailed", "ServerBusy", ""},
                                s \in {0, 500},
                                u \in {blobUrl(location), <<>>}}

\* the catch clause of getBuffer: LocalStorage.ts 120, part_001 124,
\* GoogleCloudStorage.ts 111, AzureBlockBlobStorage.ts 111
getBufferCaught(d, fs, location, e) ==
    IF d = "local" THEN Fail(fs, LocalHandleError(e, location))
    ELSE IF d = "s3" THEN Fail(fs, S3HandleError(e, location, bucket))
    ELSE IF d = "gcs" THEN Fail(fs, GcsHandleError(e, location))
    ELSE Fail(fs, AzureConvertError(e))

InitTranslate ==
    /\ driver \in Drivers
    /\ store \in StreamStores(driver)
    /\ last = NoCall
    /\ pending = NoPending

\* getBuffer(location) whose backend read rejects with the native error e
GetBufferRejected(location) ==
    \E e \in NativeErrors(driver, location) :
        LET r == getBufferCaught(driver, store, location, e)
        IN /\ last' = Call("getBuffer", location, <<>>, "", <<>>, <<e.code>>, r)
           /\ store' = r.store
           /\ UNCHANGED <<driver, pending>>

NextTranslate == \E l \in LocsOf(driver) : GetBufferRejected(l)

SpecTranslate == InitTranslate /\ [][NextTranslate]_vars

\* the codes a driver's translator maps to a kind of its own
KnownCodes(d) ==
    IF d = "local" THEN {"E_FILE_NOT_FOUND", "ENOENT", "EPERM"}
    ELSE IF d = "s3" THEN {"NoSuchBucket", "NoSuchKey", "AllAccessDisabled"}
    ELSE IF d = "gcs" THEN {"401", "403", "404", "ENOENT"}
    ELSE {"BlobNotFound", "AuthenticationFailed"}

\* the translation is total: every native error, whatever its code, comes out
\* as one kind of the taxonomy, UnknownException exactly for the codes the
\* translator does not know, and the exception wraps the native error's code
TranslationTotal ==
    [][ last'.op = "getBuffer"
        => /\ ~last'.ok
           /\ last'.kind \in BackendKinds
           /\ (last'.kind = "UnknownException") <=> (last'.faults[1] \notin KnownCodes(driver))
           /\ last'.faults[1] # "" => last'.cause = last'.faults[1] ]_vars

\* C18: every backend's error translation is total and preserves context: any
\* native error, with or without a code, becomes exactly one kind of the
\* taxonomy, UnknownException for the codes the translator does not know, and
\* the exception carries the native error's code and the location string the
\* failed operation was called with.
C18_TranslationPreservesContext ==
    [][ last'.op = "getBuffer"
        => /\ ~last'.ok
           /\ last'.kind \in BackendKinds
           /\ (last'.kind = "UnknownException") <=> (last'.faults[1] \notin KnownCodes(driver))
           /\ last'.faults[1] # "" => last'.cause = last'.faults[1]
           /\ last'.epath = last'.loc ]_vars

\* local getBuffer has thrown UnknownException for an error with a code the
\* translator does not know, and the exception names the absolute path
C18_Witness ==
    /\ driver = "local"
    /\ last.op = "getBuffer"
    /\ ~last.ok
    /\ last.kind = "UnknownException"
    /\ last.cause = "EISDIR"
    /\ last.loc = LocA
    /\ last.epath = thisFullPath(LocA)

-----------------------------------------------------------------------------
\* C19: an S3 delete whose backend call succeeds always returns
\* wasDeleted = null, whether or not the key held an object before the call,
\* and the key holds nothing afterwards.
C19_S3DeleteReportsNull ==
    [][ (last'.op = "delete" /\ driver = "s3" /\ NoFault(last'))
        => /\ last'.ok
           /\ last'.flag = "null"
           /\ ~Has(store', last'.loc)
           /\ \A k \in DOMAIN store \ {last'.loc} : Has(store', k) /\ store'[k] = store[k] ]_vars

\* the S3 driver has deleted a key while another object is in the bucket, and
\* has answered wasDeleted = null
C19_Witness ==
    /\ driver = "s3"
    /\ last.op = "delete"
    /\ last.ok
    /\ NoFault(last)
    /\ last.flag = "null"
    /\ Objects(store) # {}

-----------------------------------------------------------------------------
(* Two operations at once on one driver, LocalStorage or S3: each is a task
   that suspends at every backend call, and the calls of the two interleave
   freely *)

LocE == <<"e">>
LocDB == <<"d", SLASH, "b">>
LocEA == <<"e", SLASH, "a">>

\* the locations of the racing operations and the prefixes of their listings
RaceLocs == {LocD, LocE, LocDA, LocDB, LocEA}
RacePrefixes == {<<>>, <<"d", SLASH>>, <<"e", SLASH>>}

\* the filesystems the race starts from
RaceDrivers == {"local", "s3"}

RaceStores(d) ==
    {ListStore(d, ks) : ks \in SUBSET {LocDA, LocDB, LocEA}} \cup {ListStore(d, {LocE})}

\* an operation and its arguments
Op(op, loc, dest) == [op |-> op, loc |-> loc, dest |-> dest]

\* the operations that race; a listing races on the local driver only (the
\* paging of the object stores' listings is followed on its own above)
RaceOps(d) ==
    {Op(n, l, <<>>) : n \in {"put", "getBuffer", "delete"}, l \in RaceLocs}
    \cup {Op("move", m[1], m[2]) : m \in {x \in RaceLocs \X RaceLocs : x[1] # x[2]}}
    \cup IF d = "local" THEN {Op("flatList", p, <<>>) : p \in RacePrefixes} ELSE {}

\* the locations an operation is called with
LocsOfOp(o) == IF o.op = "move" THEN {o.loc, o.dest} ELSE {o.loc}

\* what the caller gets: the value returned or the exception, and for a
\* listing the paths yielded
Outcome(r, paths) ==
    [ok |-> r.ok, thrown |-> r.thrown, flag |-> r.flag, content |-> r.content, paths |-> paths]

NoOutcome == Outcome(Ok(<<>>), {})

\* an operation run alone, from call to return
runAlone(d, fs, o) ==
    IF o.op = "flatList"
    THEN LET l == flatListAbsolute(fs, thisFullPath(o.loc))
         IN [fs |-> fs,
             out |-> IF l.thrown = NoThrow THEN Outcome(Ok(fs), l.paths)
                     ELSE Outcome(Fail(fs, l.thrown), {})]
    ELSE LET r == IF o.op = "put" THEN DoPut(d, fs, o.loc, BufferContent, NoError, NoError)
                  ELSE IF o.op = "getBuffer" THEN DoGetBuffer(d, fs, o.loc, NoError)
                  ELSE IF o.op = "delete" THEN DoDelete(d, fs, o.loc, NoError)
                  ELSE DoMove(d, fs, o.loc, o.dest, NoError, NoError, TRUE, "")
         IN [fs |-> r.store, out |-> Outcome(r, {})]

\* a task: the operation, where it is suspended ("dir": before the local
\* put's ensureDir, "write": before its writeFile, "copy": before the S3
\* move's copyObject, "delete": before its deleteObject, "call": before the
\* one backend call of the others, "list": before the next readdir, "done":
\* returned),
\* the directories a listing has still to read, and the paths it has yielded
Task(o, pc, stack, paths, out) ==
    [o |-> o, pc |-> pc, stack |-> stack, paths |-> paths, out |-> out]

Started(d, o) ==
    Task(o,
         IF d = "local" /\ o.op = "put" THEN "dir"
         ELSE IF d = "s3" /\ o.op = "move" THEN "copy"
         ELSE IF o.op = "flatList" THEN "list"
         ELSE "call",
         IF o.op = "flatList" THEN <<thisFullPath(o.loc)>> ELSE <<>>,
         {}, NoOutcome)

Returned(t, r) == Task(t.o, "done", <<>>, {}, Outcome(r, t.paths))

\* a faulty first call of put: the directory is emptied as it is made
putEmptiesDir(fs, location) ==
    LET d == dirname(thisFullPath(location))
        r == ensureDir(fs, d, "")
    IN IF r.err.code # "" THEN r
       ELSE FsRet(Remove(r.fs, Subtree(r.fs, d) \ {d}), "", <<>>, <<>>)

\* LocalStorage.put, first backend call: fse.ensureDir(dirname(fullPath))
putEnsuresDir(fs, location) == ensureDir(fs, dirname(thisFullPath(location)), "")

\* LocalStorage.put, second backend call: fse.writeFile(fullPath, content)
putWritesFile(fs, location) == writeFile(fs, thisFullPath(location), BytesOf(BufferContent), "")

\* fs.readdir(d, {withFileTypes: true}): the entries of the directory, each
\* with its kind
readdir(fs, d) ==
    LET dir == Strip(d)
        code == IF IsFile(fs, dir) THEN "ENOTDIR" ELSE LookupError(fs, d, "")
    IN [err |-> NativeError(code, 0, d),
        entries |-> IF code # "" THEN {}
                    ELSE {[name |-> k, dir |-> fs[k].dir] :
                              k \in {j \in DOMAIN fs : j # dir /\ dirname(j) = dir}}]

\* the orders a set can come in
Orders(S) ==
    {s \in [1..Cardinality(S) -> S] : \A i, j \in 1..Cardinality(S) : i # j => s[i] # s[j]}

\* the entries of the directory a listing reads next that start with its prefix
ListHits(fs, t) ==
    LET prefix == Head(t.stack)
        prefixDirectory == IF prefix[Len(prefix)] = SLASH THEN prefix ELSE dirname(prefix)
    IN {k \in readdir(fs, prefixDirectory).entries : StartsWith(k.name, prefix)}

\* the orders readdir can give the directories the listing descends into
SubOrders(fs, t) ==
    IF t.pc = "list" THEN Orders({k.name : k \in {h \in ListHits(fs, t) : h.dir}}) ELSE {<<>>}

\* flatListAbsolute up to its next readdir: the files of the directory read
\* are yielded, its directories are read next, in the order readdir gave them;
\* a directory that is not there is skipped, any other error is thrown
listed(fs, t, subs) ==
    LET prefix == Head(t.stack)
        prefixDirectory == IF prefix[Len(prefix)] = SLASH THEN prefix ELSE dirname(prefix)
        r == readdir(fs, prefixDirectory)
        e == LocalHandleError(r.err, prefixDirectory)
        files == {relative(k.name) : k \in {h \in ListHits(fs, t) : ~h.dir}}
        stack == [i \in 1..Len(subs) |-> subs[i] \o <<SLASH>>] \o Tail(t.stack)
        paths == t.paths \cup files
    IN IF r.err.code # "" /\ e.kind # "FileNotFound"
       THEN Task(t.o, "done", <<>>, {}, Outcome(Fail(fs, e), {}))
       ELSE IF stack = <<>> THEN Task(t.o, "done", <<>>, {}, Outcome(Ok(fs), paths))
       ELSE Task(t.o, "list", stack, paths, NoOutcome)

\* a task returns r to its caller
returns(t, r) == [fs |-> r.store, task |-> Returned(t, r)]

\* LocalStorage.put after its ensureDir: a failure is translated and thrown
afterEnsureDir(t, r) ==
    IF r.err.code # "" THEN returns(t, Fail(r.fs, LocalHandleError(r.err, t.o.loc)))
    ELSE [fs |-> r.fs, task |-> Task(t.o, "write", <<>>, {}, NoOutcome)]

\* LocalStorage.put after its writeFile
afterWriteFile(t, r) ==
    returns(t, IF r.err.code # "" THEN Fail(r.fs, LocalHandleError(r.err, t.o.loc)) ELSE Ok(r.fs))

\* AmazonWebServicesS3Storage.move after `await this.copy(src, dest)`
afterCopy(t, r) ==
    IF r.ok THEN [fs |-> r.store, task |-> Task(t.o, "delete", <<>>, {}, NoOutcome)]
    ELSE returns(t, r)

\* AmazonWebServicesS3Storage.move after `await this.delete(src)`
afterDelete(t, r) == returns(t, IF r.ok THEN Ok(r.store) ELSE r)

\* the operations that make one backend call, from call to return
called(d, fs, o) ==
    IF o.op = "getBuffer"
    THEN (IF d = "local" THEN LocalGetBuffer(fs, o.loc, "") ELSE S3GetBuffer(fs, o.loc, NoError))
    ELSE IF o.op = "delete"
    THEN (IF d = "local" THEN LocalDelete(fs, o.loc, "") ELSE S3Delete(fs, o.loc, NoError))
    ELSE IF o.op = "put" THEN S3Put(fs, o.loc, BufferContent, NoError)
    ELSE LocalMove(fs, o.loc, o.dest, "", TRUE)

\* a task run up to its next suspension: the backend call it was waiting to
\* make is made on the filesystem as it is now
resumedTask(d, fs, t, subs) ==
    IF t.pc = "dir" THEN afterEnsureDir(t, putEnsuresDir(fs, t.o.loc))
    ELSE IF t.pc = "write" THEN afterWriteFile(t, putWritesFile(fs, t.o.loc))
    ELSE IF t.pc = "copy" THEN afterCopy(t, S3Copy(fs, t.o.loc, t.o.dest, NoError))
    ELSE IF t.pc = "delete" THEN afterDelete(t, S3Delete(fs, t.o.loc, NoError))
    ELSE IF t.pc = "list" THEN [fs |-> fs, task |-> listed(fs, t, subs)]
    ELSE returns(t, called(d, fs, t.o))

InitRace ==
    /\ driver \in RaceDrivers
    /\ store \in RaceStores(driver)
    /\ last = NoCall
    /\ pending = NoPending

\* two call sites invoke an operation each, on distinct locations
RaceStart(o1, o2) ==
    /\ LocsOfOp(o1) \cap LocsOfOp(o2) = {}
    /\ pending' = [kind |-> "race", before |-> store, tasks |-> <<Started(driver, o1), Started(driver, o2)>>]
    /\ UNCHANGED <<driver, store, last>>

\* task i has run on to r.task and left the filesystem r.fs
RaceResumed(i, r) ==
    /\ store' = r.fs
    /\ pending' = [pending EXCEPT !.tasks[i] = r.task]

\* the backend call task i was waiting for completes and the task runs on
RaceStep(i) ==
    /\ pending.tasks[i].pc # "done"
    /\ \E subs \in SubOrders(store, pending.tasks[i]) :
          RaceResumed(i, resumedTask(driver, store, pending.tasks[i], subs))
    /\ UNCHANGED <<driver, last>>

NextRace ==
    \/ /\ pending = NoPending
       /\ \E o1 \in RaceOps(driver), o2 \in RaceOps(driver) : RaceStart(o1, o2)
    \/ /\ pending.kind = "race"
       /\ \E i \in {1, 2} : RaceStep(i)

SpecRace == InitRace /\ [][NextRace]_vars

\* both tasks have returned
RaceOver == pending.kind = "race" /\ \A i \in {1, 2} : pending.tasks[i].pc = "done"

\* running first and then second alone gives these outcomes and this filesystem
SameAsInOrder(first, second) ==
    LET a == runAlone(driver, pending.before, first.o)
        b == runAlone(driver, a.fs, second.o)
    IN a.out = first.out /\ b.out = second.out /\ b.fs = store

Serializable ==
    \/ SameAsInOrder(pending.tasks[1], pending.tasks[2])
    \/ SameAsInOrder(pending.tasks[2], pending.tasks[1])

\* no path (key) of one operation is the start of a path (key) of the other:
\* neither names the other's file, a directory above it, or a listing prefix
\* covering it
Unrelated(o1, o2) ==
    \A l1 \in LocsOfOp(o1), l2 \in LocsOfOp(o2) :
        /\ ~StartsWith(KeyOf(l1), KeyOf(l2))
        /\ ~StartsWith(KeyOf(l2), KeyOf(l1))

\* C20: two operations invoked concurrently on one driver, on locations none
\* of which is the start of another, do not interfere: however their backend
\* calls interleave, each gets the result, and the store ends in the state,
\* of running the two one after the other in some order.
C20_UnrelatedSerializable ==
    (RaceOver /\ Unrelated(pending.tasks[1].o, pending.tasks[2].o)) => Serializable

\* C20 as stated: the same for any two operations on distinct locations.
C20_DistinctSerializable == RaceOver => Serializable

\* the local put('d/a') and put('d/b') have raced on a filesystem without the
\* directory d, both have returned, and both files are there
C20_Witness ==
    /\ RaceOver
    /\ driver = "local"
    /\ pending.tasks[1].o = Op("put", LocDA, <<>>)
    /\ pending.tasks[2].o = Op("put", LocDB, <<>>)
    /\ ~Has(pending.before, thisFullPath(LocD))
    /\ pending.tasks[1].out.ok /\ pending.tasks[2].out.ok
    /\ IsFile(store, thisFullPath(LocDA)) /\ IsFile(store, thisFullPath(LocDB))

-----------------------------------------------------------------------------
(* LocalStorage.prepend, with the get and the put it is written with *)

\* U+FFFD, what the decoder puts for bytes that are not UTF-8
Replacement == 65533

\* the length a file may have for prepend to be called on it once more
MaxPrependLen == 3

\* a continuation byte
IsCont(b) == b \in 128..191

\* the second byte a lead byte admits: no overlong forms, no surrogates,
\* nothing above U+10FFFF
SecondOk(b1, b2) ==
    IF b1 = 224 THEN b2 \in 160..191
    ELSE IF b1 = 237 THEN b2 \in 128..159
    ELSE IF b1 = 240 THEN b2 \in 144..191
    ELSE IF b1 = 244 THEN b2 \in 128..143
    ELSE IsCont(b2)

\* the bytes of the sequence a lead byte starts (1 for a byte that starts none)
SeqLen(b1) ==
    IF b1 \in 194..223 THEN 2 ELSE IF b1 \in 224..239 THEN 3 ELSE IF b1 \in 240..244 THEN 4 ELSE 1

\* how many bytes at the head of the buffer are a well-formed start of one
\* sequence
RECURSIVE GoodUpTo(_, _, _)
GoodUpTo(bytes, want, i) ==
    IF i > want \/ i > Len(bytes) THEN i - 1
    ELSE IF (i = 2 /\ SecondOk(bytes[1], bytes[2])) \/ (i > 2 /\ IsCont(bytes[i]))
    THEN GoodUpTo(bytes, want, i + 1)
    ELSE i - 1

\* the code point of a complete sequence of n bytes
CodePoint(bytes, n) ==
    IF n = 1 THEN bytes[1]
    ELSE IF n = 2 THEN (bytes[1] - 192) * 64 + (bytes[2] - 128)
    ELSE IF n = 3 THEN (bytes[1] - 224) * 4096 + (bytes[2] - 128) * 64 + (bytes[3] - 128)
    ELSE (bytes[1] - 240) * 262144 + (bytes[2] - 128) * 4096
         + (bytes[3] - 128) * 64 + (bytes[4] - 128)

\* buffer.toString('utf-8'), fse.readFile(path, 'utf-8'): the code points of
\* the bytes; every ill-formed or truncated sequence becomes one U+FFFD
RECURSIVE utf8Decode(_)
utf8Decode(bytes) ==
    IF Len(bytes) = 0 THEN <<>>
    ELSE LET b1 == bytes[1]
             want == SeqLen(b1)
             good == IF want = 1 THEN 1 ELSE GoodUpTo(bytes, want, 2)
             rest == SubSeq(bytes, good + 1, Len(bytes))
         IN IF b1 < 128 THEN <<b1>> \o utf8Decode(rest)
            ELSE IF want > 1 /\ good = want THEN <<CodePoint(bytes, want)>> \o utf8Decode(rest)
            ELSE <<Replacement>> \o utf8Decode(rest)

\* a Buffer that is not UTF-8
BinaryContent == Content("buffer", <<255>>, <<>>, <<>>, FALSE)

\* what prepend is called with: a Buffer or a string
PrependContents == {BufferContent, StringContent, BinaryContent}

\* String(content), as a template literal takes it
StringOf(content) == IF content.type = "string" THEN content.chars ELSE utf8Decode(content.bytes)

\* LocalStorage.get(location, 'utf-8'): the file read as a string
LocalGet(fs, location, fault) ==
    LET fullP == thisFullPath(location)
        r == readFile(fs, fullP, fault)
    IN IF r.err.code = "" THEN Ret(fs, TRUE, NoThrow, "", utf8Decode(r.data))
       ELSE Fail(fs, LocalHandleError(r.err, fullP))

\* fse.outputFile(file, data): the directory is made, then the file written
outputFile(fs, file, data, fault) ==
    LET made == ensureDir(fs, dirname(file), "")
    IN IF made.err.code # "" THEN made ELSE writeFile(made.fs, file, data, fault)

\* LocalStorage.put of a Buffer or a string, as prepend calls it
LocalPutFile(fs, location, data, fault) ==
    LET fullP == thisFullPath(location)
        r == outputFile(fs, fullP, data, fault)
    IN IF r.err.code = "" THEN Ok(r.fs) ELSE Fail(r.fs, LocalHandleError(r.err, fullP))

\* LocalStorage.prepend: the file is read as UTF-8 and put back behind the
\* content, both in one template string; when the read fails, for whatever
\* reason, the content alone is put
LocalPrepend(fs, location, content, faultGet, faultPut) ==
    LET got == LocalGet(fs, location, faultGet)
    IN IF got.ok
       THEN LocalPutFile(fs, location, Utf8(StringOf(content) \o got.content), faultPut)
       ELSE LocalPutFile(fs, location, BytesOf(content), faultPut)

\* the filesystems prepend starts from: nothing, a text file, a file that is
\* not UTF-8
PrependStores ==
    StreamStores("local") \cup {SetNode(EmptyStore("local"), Key("local", LocA), FileNode(<<195>>))}

InitPrepend ==
    /\ driver = "local"
    /\ store \in PrependStores
    /\ last = NoCall
    /\ pending = NoPending

Prepend(location, content) ==
    /\ IsFile(store, KeyOf(location)) => Len(store[KeyOf(location)].data) <= MaxPrependLen
    /\ \E fg \in Faults("local"), fp \in Faults("local") :
          /\ last' = Call("prepend", location, <<>>, content.type, BytesOf(content),
                          <<fg.code, fp.code>>,
                          LocalPrepend(store, location, content, fg.code, fp.code))
          /\ store' = LocalPrepend(store, location, content, fg.code, fp.code).store
    /\ UNCHANGED <<driver, pending>>

NextPrepend == \E l \in Locs, c \in PrependContents : Prepend(l, c)

SpecPrepend == InitPrepend /\ [][NextPrepend]_vars

\* what the location held before the call, nothing counting as empty
HeldBefore(location) ==
    IF IsFile(store, KeyOf(location)) THEN store[KeyOf(location)].data ELSE <<>>

\* the bytes are UTF-8: decoding and encoding gives them back
IsUtf8(bytes) == Utf8(utf8Decode(bytes)) = bytes

\* C21: after LocalStorage.prepend(L, C) has returned, L holds C followed by
\* what L held before the call, an absent L counting as empty.
C21_PrependKeepsContent ==
    [][ (last'.op = "prepend" /\ last'.ok)
        => /\ IsFile(store', KeyOf(last'.loc))
           /\ store'[KeyOf(last'.loc)].data = last'.given \o HeldBefore(last'.loc) ]_vars

\* the same for text only and a read that does not fail: what prepend does keep
PrependKeepsText ==
    [][ (/\ last'.op = "prepend" /\ last'.ok
         /\ last'.faults[1] = ""
         /\ IsUtf8(last'.given) /\ IsUtf8(HeldBefore(last'.loc)))
        => /\ IsFile(store', KeyOf(last'.loc))
           /\ store'[KeyOf(last'.loc)].data = last'.given \o HeldBefore(last'.loc) ]_vars

\* prepend of a string has returned and the file holds the string followed by
\* U+FFFD where the byte 0xC3 was
C21_Witness ==
    /\ last.op = "prepend"
    /\ last.ok
    /\ last.loc = LocA
    /\ last.ctype = "string"
    /\ store[KeyOf(LocA)].data = <<195, 169, 239, 191, 189>>

-----------------------------------------------------------------------------
\* C22: every entry flatList(P) yields, whatever the prefix, has a path
\* relative to the driver's root or bucket: it is not absolute, does not start
\* with '..', and names a regular file of the store, never a directory; in
\* the local driver it is the file's path below the root.
C22_EntriesAreRelativeFiles ==
    pending.kind = "list" =>
        \A i \in 1..Len(pending.yielded) :
            LET path == pending.yielded[i]
            IN /\ path # <<>>
               /\ path[1] # SLASH
               /\ Head(Split(path)) # DOTDOT
               /\ IsFile(store, KeyOf(path))
               /\ driver = "local" => fullPathUnclamped(path) = KeyOf(path)

\* the local listing of '../d' has yielded the file d/a of a directory d
C22_Witness ==
    /\ driver = "local"
    /\ pending.kind = "list"
    /\ pending.prefix = <<".", ".", SLASH, "d">>
    /\ IsDir(store, KeyOf(LocD))
    /\ Len(pending.yielded) > 0
    /\ pending.yielded[1] = LocDA

-----------------------------------------------------------------------------
\* C23: move never loses the object: for every src holding content X and every
\* dest, dest equal to src included, after a move(src, dest) that returns the
\* content X is at dest.
C23_MoveKeepsObject ==
    [][ (/\ last'.op = "move"
         /\ last'.ok
         /\ IsFile(store, KeyOf(last'.loc)))
        => /\ IsFile(store', KeyOf(last'.dest))
           /\ store'[KeyOf(last'.dest)].data = store[KeyOf(last'.loc)].data ]_vars

\* the same with src and dest addressing different objects
MoveElsewhereKeepsObject ==
    [][ (/\ last'.op = "move"
         /\ last'.ok
         /\ IsFile(store, KeyOf(last'.loc))
         /\ KeyOf(last'.loc) # KeyOf(last'.dest))
        => /\ IsFile(store', KeyOf(last'.dest))
           /\ store'[KeyOf(last'.dest)].data = store[KeyOf(last'.loc)].data ]_vars

\* the same for a move onto itself in the drivers that leave it to one call
\* of the backend
MoveOntoItselfKeepsObject ==
    [][ (/\ last'.op = "move"
         /\ last'.ok
         /\ IsFile(store, KeyOf(last'.loc))
         /\ KeyOf(last'.loc) = KeyOf(last'.dest)
         /\ driver \in {"local", "s3"})
        => /\ IsFile(store', KeyOf(last'.dest))
           /\ store'[KeyOf(last'.dest)].data = store[KeyOf(last'.loc)].data ]_vars

\* an Azure move of a onto itself has returned and a is gone
C23_Witness ==
    /\ driver = "azure"
    /\ last.op = "move"
    /\ last.ok
    /\ last.loc = LocA
    /\ last.dest = LocA
    /\ ~Has(store, KeyOf(LocA))

-----------------------------------------------------------------------------
\* the taxonomy kinds copy(src, dest) of the Azure driver rejects with on this
\* store under the error injected into the call's copy step, one for each
\* error code the service may have for an absent source; none if it returns
CopyStepKinds(fs, call) ==
    {AzureCopy(fs, call.loc, call.dest, f, absentCode).thrown.kind :
        <<f, absentCode>> \in
            {x \in Faults("azure") \X AzureAbsentCodes :
                /\ x[1].code = call.faults[1]
                /\ ~AzureCopy(fs, call.loc, call.dest, x[1], x[2]).ok}}

\* C24: in the Azure driver, when the copy step of move(src, dest) fails, move
\* rejects with an error of the taxonomy kind copy(src, dest) itself rejects
\* with, the delete step is not executed and src is left unchanged.
C24_MoveRejectsAsCopy ==
    [][ (/\ driver = "azure"
         /\ last'.op = "move"
         /\ CopyStepKinds(store, last') # {})
        => /\ ~last'.ok
           /\ last'.kind \in CopyStepKinds(store, last')
           /\ store' = store ]_vars

\* the part of it that does not depend on the kind: move rejects and the
\* store is as it was
FailedCopyStepKeepsStore ==
    [][ (/\ driver = "azure"
         /\ last'.op = "move"
         /\ CopyStepKinds(store, last') # {})
        => /\ ~last'.ok
           /\ store' = store ]_vars

\* an Azure move whose copy step was refused for authentication has rejected
\* with the catch-all kind, the source untouched
C24_Witness ==
    /\ driver = "azure"
    /\ last.op = "move"
    /\ last.loc = LocA
    /\ last.dest = LocD
    /\ last.faults[1] = "AuthenticationFailed"
    /\ ~last.ok
    /\ last.kind = "UnknownException"
    /\ IsFile(store, KeyOf(LocA))
    /\ ~Has(store, KeyOf(LocD))

====
